---------------------------- MODULE Spec2Model ----------------------------
(***************************************************************************)
(* State-machine model of the OCR microservices of SecureDocumentIntelli-  *)
(* gence.  The core is the Tesseract service's multi-approach sweep        *)
(* (python-tesseract-service/app.py, process_with_tesseract_multi_approach)*)
(* together with its startup probe and its HTTP handlers.                  *)
(*                                                                         *)
(* Texts are sequences of one-character strings.  Python's None is the     *)
(* empty sequence and a present value x is <<x>>.                          *)
(***************************************************************************)
EXTENDS Integers, Sequences, FiniteSets, TLC

VARIABLES
    service,              \* which of the repository's programs this run is
    env,                  \* the host: what is installed (read by the probes)
    pc,                   \* position of the service's control flow
    TESSERACT_AVAILABLE,  \* python-tesseract-service/app.py:71
    OPENCV_AVAILABLE,     \* python-tesseract-service/app.py:72
    SUPPORTED_LANGUAGES,  \* python-tesseract-service/app.py:73
    paddle_ocr,           \* python-paddle-service/app.py:79
    paddle_available,     \* python-paddle-service/app.py:80
    opencv_available,     \* python-opencv-service/app.py:100
    tesseract_available,  \* python-opencv-service/app.py:101
    ocr_service,          \* python-ocr-service/app.py:674 (its two flags)
    ocr_processor,        \* the VietnameseOCRProcessor (None until built)
    request,              \* the request being served (None when idle)
    engine,               \* how the external engine behaves on its image
    temp_files,           \* files of the request's temporary directory
    approach_i,           \* index into approaches (loop of line 186)
    lang_i,               \* index into the language list (loop of line 196)
    psm_i,                \* index into the PSM list (loop of line 197)
    best_result,          \* line 181
    best_score,           \* line 182
    best_approach,        \* line 183
    executed,             \* history: the engine invocations made so far
    result,               \* value returned by the sweep (None until then)
    response,             \* last HTTP response sent (None while serving)
    now,                  \* datetime.now(), in whole seconds
    in_flight,            \* python-ocr-service: the requests being served
    temp_paths,           \* python-ocr-service: the path each one wrote
    original_text,        \* the argument of clean_vietnamese_text
    cleaned,              \* its local `cleaned`
    improvements,         \* its local `improvements`
    step,                 \* the step it takes next (0: it is not running)
    call,                 \* the arguments of the call served last
    effects               \* what that call has done, in order

vars == <<service, env, pc, TESSERACT_AVAILABLE, OPENCV_AVAILABLE,
          SUPPORTED_LANGUAGES, paddle_ocr, paddle_available, opencv_available,
          tesseract_available, ocr_service, ocr_processor, request, engine,
          temp_files, approach_i, lang_i,
          psm_i, best_result, best_score, best_approach, executed, result,
          response, now, in_flight, temp_paths, original_text, cleaned,
          improvements, step, call, effects>>

\* the call of clean_vietnamese_text
cleaner_vars == <<original_text, cleaned, improvements, step>>

\* the requests of python-ocr-service that are in flight, and the clock
handler_vars == <<now, in_flight, temp_paths>>

\* the call observed: its arguments and the trace of what it did
call_vars == <<call, effects>>

sweep_vars == <<approach_i, lang_i, psm_i, best_result, best_score,
                best_approach, executed, result>>

flag_vars == <<TESSERACT_AVAILABLE, OPENCV_AVAILABLE, SUPPORTED_LANGUAGES>>

other_flag_vars == <<paddle_ocr, paddle_available, opencv_available,
                     tesseract_available, ocr_service, ocr_processor>>

----------------------------------------------------------------------------
(* Bounds of the model. *)

\* lengths 0..MaxShort of short engine outputs are tried
MaxShort == 2
\* lengths EARLY_EXIT_LENGTH .. EARLY_EXIT_LENGTH + MaxOver of long ones
MaxOver == 2
\* the texts handed to the cleaner are made of up to MaxFragments pieces
MaxFragments == 2
\* python-ocr-service serves up to MaxRequests requests at a time
MaxRequests == 2
\* the clock runs over the seconds 0..MaxSeconds
MaxSeconds == 1

----------------------------------------------------------------------------
(* Program constants. *)

\* `if text_length > 100` / `if best_score > 100`
EARLY_EXIT_LENGTH == 100
\* `if best_result and best_score >= 2`
MIN_VIABLE_LENGTH == 2
\* `confidence = min(95, 50 + text_length // 2)`
CONFIDENCE_CAP == 95
CONFIDENCE_BASE == 50

None == <<>>
Some(x) == <<x>>
NoKey == "<absent>"

approaches ==
    << "original", "user_preprocessing", "simple_threshold", "adaptive",
       "enhanced_contrast", "morphological" >>

PsmModes == << 3, 6, 7, 8 >>

FallbackLanguage == "eng"

\* a language list that always appends the fallback
LanguagesAlwaysTwo(language) == << language, FallbackLanguage >>

\* a language list that tries the fallback language first
LanguagesFallbackFirst(language) ==
    IF language # FallbackLanguage THEN << FallbackLanguage, language >>
    ELSE << FallbackLanguage >>

\* `[language, 'eng'] if language != 'eng' else ['eng']`
Languages(language) ==
    IF language # FallbackLanguage THEN << language, FallbackLanguage >>
    ELSE << FallbackLanguage >>

RequestLanguages == { "vie", "eng" }

----------------------------------------------------------------------------
(* Text helpers: str.strip() and len(). *)

Whitespace == { " ", "\n", "\t", "\f", "\r" }

RECURSIVE LStrip(_)
LStrip(s) ==
    IF s # <<>> /\ Head(s) \in Whitespace THEN LStrip(Tail(s)) ELSE s

RECURSIVE RStrip(_)
RStrip(s) ==
    IF s # <<>> /\ s[Len(s)] \in Whitespace
    THEN RStrip(SubSeq(s, 1, Len(s) - 1))
    ELSE s

\* result.stdout.strip()
Strip(s) == RStrip(LStrip(s))

Min(a, b) == IF a < b THEN a ELSE b

\* a confidence without the cap
ConfidenceUncapped(text_length) == CONFIDENCE_BASE + (text_length \div 2)

\* min(95, 50 + text_length // 2)
Confidence(text_length) ==
    Min(CONFIDENCE_CAP, CONFIDENCE_BASE + (text_length \div 2))

----------------------------------------------------------------------------
(* The external engine.  Its behaviour on one image is a function of the   *)
(* (variant, language, mode) cell: a default outcome and a few hot cells   *)
(* with an outcome of their own.  An outcome is a non-zero exit, a         *)
(* timeout, another exception, or exit 0 with n printed characters.        *)

NonZeroExit == [kind |-> "exit", returncode |-> 1, n |-> 0]
TimedOut == [kind |-> "timeout", returncode |-> 0, n |-> 0]
Raised == [kind |-> "exception", returncode |-> 0, n |-> 0]
Printed(n) == [kind |-> "exit", returncode |-> 0, n |-> n]

ShortLens == 0 .. MaxShort
LongLens == EARLY_EXIT_LENGTH .. (EARLY_EXIT_LENGTH + MaxOver)

DefaultOutcomes == { NonZeroExit, TimedOut, Raised, Printed(0), Printed(1) }
HotOutcomes == { Printed(n) : n \in (ShortLens \ {0}) \cup LongLens }

Cells(language) ==
    { <<approaches[a], Languages(language)[l], PsmModes[p]>> :
        a \in 1 .. Len(approaches),
        l \in 1 .. Len(Languages(language)),
        p \in 1 .. Len(PsmModes) }

\* the hot cells lie in the first two preprocessing variants, in the first
\* or the last mode of a language
HotApproaches == 1 .. 2
HotModes == { 1, Len(PsmModes) }

HotCells(language) ==
    { <<approaches[a], Languages(language)[l], PsmModes[p]>> :
        a \in HotApproaches,
        l \in 1 .. Len(Languages(language)),
        p \in HotModes }

\* how many hot cells an engine behaviour may have: up to one when the
\* host is varied, up to two on the typical host
FewHot == { 0, 1 }
SomeHot == { 0, 1, 2 }

\* the variants whose preprocessing or cv2.imwrite raises on the image:
\* none, or the second one
PrepFailures == { { }, { approaches[2] } }

Engines(language, counts) ==
    { [default |-> d, hot |-> h, prep_fails |-> f] :
        d \in DefaultOutcomes,
        f \in PrepFailures,
        h \in UNION { [S -> HotOutcomes] :
                        S \in { T \in SUBSET HotCells(language) :
                                  Cardinality(T) \in counts } } }

Outcome(e, cell) ==
    IF cell \in DOMAIN e.hot THEN e.hot[cell] ELSE e.default

\* the character the engine prints for a cell (differs between modes)
Glyph(cell) ==
    CASE cell[3] = 3 -> "a"
      [] cell[3] = 6 -> "b"
      [] cell[3] = 7 -> "c"
      [] OTHER -> "d"

\* what the engine writes to stdout: n characters (a blank inside when
\* n >= 3), a leading blank for the fallback language, and "\n\f" at the end
Stdout(n, cell) ==
    (IF cell[2] = FallbackLanguage THEN << " " >> ELSE << >>)
    \o [i \in 1 .. n |-> IF i = 2 /\ n >= 3 THEN " " ELSE Glyph(cell)]
    \o << "\n", "\f" >>

\* subprocess.run(cmd, capture_output=True, text=True, timeout=8)
SubprocessRun(e, cell) ==
    LET o == Outcome(e, cell)
    IN  [kind |-> o.kind, returncode |-> o.returncode,
         stdout |-> IF o.kind = "exit" /\ o.returncode = 0
                    THEN Stdout(o.n, cell) ELSE << >>]

----------------------------------------------------------------------------
(* Decisions of the sweep, one operator per condition of the code. *)

\* `if result.returncode == 0`
Succeeded(run) == run.kind = "exit" /\ run.returncode = 0

\* an inner handler that catches the timeout only
InnerCaughtTimeoutOnly(run) == run.kind = "timeout"

\* `except (subprocess.TimeoutExpired, Exception): continue`
InnerCaught(run) == run.kind \in { "timeout", "exception" }

\* a comparison that lets a tie replace the best attempt
IsBetterOrEqual(text_length, score) == text_length >= score

\* `if text_length > best_score`
IsBetter(text_length, score) == text_length > score

\* a mode loop that stops at the first viable text
StopModesWhenViable(text_length) == text_length >= MIN_VIABLE_LENGTH

\* `if text_length > 100: break`
StopModes(text_length) == text_length > EARLY_EXIT_LENGTH

\* the language loop is never left early
StopLanguagesNever(score) == FALSE

\* `if best_score > 100: break`
StopLanguages(score) == score > EARLY_EXIT_LENGTH

\* f"tesseract_{approach}_{lang}_psm{psm}"
MethodLabel(approach, lang, psm) == << "tesseract", approach, lang, psm >>

\* the dict built at lines 208-214
AttemptResult(text, approach, lang, psm) ==
    [success |-> TRUE,
     text |-> text,
     confidence |-> Confidence(Len(text)),
     method |-> MethodLabel(approach, lang, psm),
     preprocessing |-> approach,
     error |-> NoKey]

\* the dict returned at lines 246-254
NoTextResult ==
    [success |-> TRUE,
     text |-> << >>,
     confidence |-> 0,
     method |-> << "tesseract_no_text_found" >>,
     preprocessing |-> "none",
     error |-> NoKey]

\* an error result that still reports success
ErrorResultAsSuccess(message) ==
    [success |-> TRUE,
     text |-> << >>,
     confidence |-> 0,
     method |-> << NoKey >>,
     preprocessing |-> NoKey,
     error |-> message]

\* the dicts returned at lines 156-161 and 259-266
ErrorResult(message) ==
    [success |-> FALSE,
     text |-> << >>,
     confidence |-> 0,
     method |-> << NoKey >>,
     preprocessing |-> NoKey,
     error |-> message]

\* a threshold that accepts a single character
ViableFromOne(best, score) == best # None /\ score >= 1

\* `if best_result and best_score >= 2`
Viable(best, score) == best # None /\ score >= MIN_VIABLE_LENGTH

\* a final step that reports the lack of text as a failure
FinalResultOrError(best, score) ==
    IF best # None /\ score >= MIN_VIABLE_LENGTH THEN best[1]
    ELSE ErrorResult("no text found")

\* lines 240-254
FinalResult(best, score) ==
    IF Viable(best, score) THEN best[1] ELSE NoTextResult

\* image_path.replace('.png', f'_{approach}.png')
TempPath(approach) == << "upload", approach >>
UploadPath == << "upload" >>

----------------------------------------------------------------------------
(* The host environment read by the startup probes. *)

TesseractStates == { "absent", "broken", "no_langs", "installed" }

InstalledLanguages == << "eng", "vie" >>

Envs ==
    [tesseract : TesseractStates, cv2_ok : BOOLEAN, hot : { FewHot }]

TypicalEnv == [tesseract |-> "installed", cv2_ok |-> TRUE, hot |-> SomeHot]

----------------------------------------------------------------------------
(* Tesseract service: python-tesseract-service/app.py *)

Tesseract == "python-tesseract-service"

\* initialize_tesseract(): the new values of TESSERACT_AVAILABLE and
\* SUPPORTED_LANGUAGES
InitializeTesseract(e) ==
    CASE e.tesseract = "installed" -> << TRUE, InstalledLanguages >>
      [] e.tesseract = "no_langs" -> << TRUE, << >> >>
      [] OTHER -> << FALSE, << >> >>

\* initialize_opencv(): the new value of OPENCV_AVAILABLE
InitializeOpencv(e) == e.cv2_ok

\* startup_event()
Startup ==
    /\ service = Tesseract
    /\ pc = "boot"
    /\ TESSERACT_AVAILABLE' = InitializeTesseract(env)[1]
    /\ SUPPORTED_LANGUAGES' = InitializeTesseract(env)[2]
    /\ OPENCV_AVAILABLE' = InitializeOpencv(env)
    /\ pc' = "idle"
    /\ UNCHANGED <<service, env, call_vars, cleaner_vars, handler_vars,
                   other_flag_vars, request, engine, temp_files,
                   sweep_vars, response>>

\* a health status that ignores the capability flag
HealthStatusAlwaysHealthy(available) == "healthy"

\* `status="healthy" if TESSERACT_AVAILABLE else "degraded"`
HealthStatus(available) == IF available THEN "healthy" ELSE "degraded"

\* GET /health
HealthCheck ==
    /\ service = Tesseract
    /\ pc = "idle"
    /\ response' = Some([endpoint |-> "/health",
                         status_code |-> 200,
                         status |-> HealthStatus(TESSERACT_AVAILABLE),
                         tesseract_available |-> TESSERACT_AVAILABLE,
                         opencv_available |-> OPENCV_AVAILABLE,
                         supported_languages |-> SUPPORTED_LANGUAGES])
    /\ UNCHANGED <<service, env, call_vars, cleaner_vars, handler_vars,
                   pc, flag_vars, other_flag_vars, request,
                   engine, temp_files, sweep_vars>>

\* the message of the exception raised while an upload is read or written
UploadError == "upload not saved"

\* the OCRResponse of lines 336-353
OcrResponse(r) ==
    [endpoint |-> "/process-ocr",
     status_code |-> 200,
     success |-> TRUE,
     text |-> r.text,
     confidence |-> r.confidence,
     processing_method |-> r.method,
     preprocessing_applied |-> r.preprocessing,
     detail |-> NoKey]

\* the HTTPException of lines 355-362
OcrFailure(r) ==
    [endpoint |-> "/process-ocr",
     status_code |-> 500,
     success |-> FALSE,
     text |-> << >>,
     confidence |-> 0,
     processing_method |-> << NoKey >>,
     preprocessing_applied |-> NoKey,
     detail |-> r.error]

\* POST /process-ocr, lines 313-331: the upload is saved into a fresh
\* temporary directory and the sweep is called; when the upload cannot be
\* written the handler answers 500 (line 362) and the `finally` of line 364
\* removes the directory
ProcessOcr ==
    /\ service = Tesseract
    /\ pc = "idle"
    /\ \/ /\ \E language \in RequestLanguages, readable \in BOOLEAN :
                request' = Some([language |-> language, readable |-> readable])
          /\ temp_files' = { UploadPath }
          /\ response' = None
          /\ pc' = "call"
       \/ /\ response' = Some(OcrFailure(ErrorResult(UploadError)))
          /\ temp_files' = { }
          /\ UNCHANGED <<request, pc>>
    /\ UNCHANGED <<service, env, call_vars, cleaner_vars, handler_vars,
                   flag_vars, other_flag_vars, engine,
                   sweep_vars>>

\* process_with_tesseract_multi_approach, lines 155-183: the availability
\* check, cv2.imread and the initialisation of the sweep.  The engine's
\* behaviour on the decoded image is fixed from here on.
EnterSweep ==
    /\ service = Tesseract
    /\ pc = "call"
    /\ IF ~TESSERACT_AVAILABLE
       THEN /\ result' = Some(ErrorResult("Tesseract not available"))
            /\ pc' = "returned"
            /\ UNCHANGED <<engine, approach_i>>
       ELSE IF ~request[1].readable
       THEN /\ result' = Some(ErrorResult("Could not load image"))
            /\ pc' = "returned"
            /\ UNCHANGED <<engine, approach_i>>
       ELSE /\ \E e \in Engines(request[1].language, env.hot) :
                  engine' = Some(e)
            /\ approach_i' = 1
            /\ pc' = "approach"
            /\ UNCHANGED result
    /\ best_result' = None /\ best_score' = 0 /\ best_approach' = "none"
    /\ UNCHANGED <<service, env, call_vars, cleaner_vars, handler_vars,
                   flag_vars, other_flag_vars, request,
                   temp_files, lang_i, psm_i, executed, response>>

\* where the loop of line 186 goes after variant approach_i
NextApproachPc == IF approach_i < Len(approaches) THEN "approach" ELSE "finish"
NextApproachIndex ==
    IF approach_i < Len(approaches) THEN approach_i + 1 ELSE approach_i

\* whether apply_preprocessing_approach or cv2.imwrite raises for a variant:
\* on the image's account, or because cv2.cvtColor (the call probed by
\* initialize_opencv) does not work on the host
PreprocessingRaises(approach, e, host) ==
    approach \in e.prep_fails \/ ~host.cv2_ok

\* lines 187-193: preprocess the image for the variant and write it
PrepareApproach ==
    /\ service = Tesseract
    /\ pc = "approach"
    /\ \/ \* apply_preprocessing_approach and cv2.imwrite succeed
          /\ ~PreprocessingRaises(approaches[approach_i], engine[1], env)
          /\ temp_files' = temp_files \cup { TempPath(approaches[approach_i]) }
          /\ lang_i' = 1 /\ psm_i' = 1
          /\ pc' = "psm"
          /\ UNCHANGED approach_i
       \/ \* they raise: `except Exception as e: ... continue` (line 234)
          /\ PreprocessingRaises(approaches[approach_i], engine[1], env)
          /\ pc' = NextApproachPc
          /\ approach_i' = NextApproachIndex
          /\ UNCHANGED <<temp_files, lang_i, psm_i>>
    /\ UNCHANGED <<service, env, call_vars, cleaner_vars, handler_vars,
                   flag_vars, other_flag_vars, request, engine,
                   best_result, best_score, best_approach, executed, result,
                   response>>

\* lines 198-232: one engine invocation, the bookkeeping of the best
\* attempt, the two breaks, and the removal of the variant's file when
\* the variant is finished
Attempt ==
    /\ service = Tesseract
    /\ pc = "psm"
    /\ LET approach == approaches[approach_i]
           langs == Languages(request[1].language)
           lang == langs[lang_i]
           psm == PsmModes[psm_i]
           cell == << approach, lang, psm >>
           run == SubprocessRun(engine[1], cell)
           text == Strip(run.stdout)
           text_length == Len(text)
           better == Succeeded(run) /\ IsBetter(text_length, best_score)
           new_score == IF better THEN text_length ELSE best_score
           escaped == ~Succeeded(run) /\ run.kind # "exit" /\ ~InnerCaught(run)
           modes_done == \/ better /\ StopModes(text_length)
                         \/ psm_i = Len(PsmModes)
           langs_done == modes_done /\ (\/ StopLanguages(new_score)
                                         \/ lang_i = Len(langs))
       IN  /\ executed' = Append(executed, cell)
           /\ best_result' = IF better
                             THEN Some(AttemptResult(text, approach, lang, psm))
                             ELSE best_result
           /\ best_score' = new_score
           /\ best_approach' = IF better THEN approach ELSE best_approach
           /\ IF escaped
              THEN \* caught at line 234: the variant is abandoned
                   /\ pc' = NextApproachPc
                   /\ approach_i' = NextApproachIndex
                   /\ UNCHANGED <<lang_i, psm_i, temp_files>>
              ELSE IF langs_done
              THEN /\ temp_files' = temp_files \ { TempPath(approach) }
                   /\ pc' = NextApproachPc
                   /\ approach_i' = NextApproachIndex
                   /\ UNCHANGED <<lang_i, psm_i>>
              ELSE IF modes_done
              THEN /\ lang_i' = lang_i + 1 /\ psm_i' = 1
                   /\ UNCHANGED <<pc, approach_i, temp_files>>
              ELSE /\ psm_i' = psm_i + 1
                   /\ UNCHANGED <<pc, approach_i, lang_i, temp_files>>
    /\ UNCHANGED <<service, env, call_vars, cleaner_vars, handler_vars,
                   flag_vars, other_flag_vars, request, engine,
                   result, response>>

\* a sweep that marks the engine unavailable when no attempt yielded text
FinishClearingFlag ==
    /\ service = Tesseract
    /\ pc = "finish"
    /\ result' = Some(FinalResult(best_result, best_score))
    /\ pc' = "returned"
    /\ TESSERACT_AVAILABLE' = (TESSERACT_AVAILABLE /\ best_score > 0)
    /\ UNCHANGED <<service, env, call_vars, cleaner_vars, handler_vars,
                   OPENCV_AVAILABLE, SUPPORTED_LANGUAGES,
                   other_flag_vars, request, engine,
                   temp_files, approach_i, lang_i, psm_i, best_result,
                   best_score, best_approach, executed, response>>

\* lines 238-254: the value returned after the loop
Finish ==
    /\ service = Tesseract
    /\ pc = "finish"
    /\ result' = Some(FinalResult(best_result, best_score))
    /\ pc' = "returned"
    /\ UNCHANGED <<service, env, call_vars, cleaner_vars, handler_vars,
                   flag_vars, other_flag_vars, request, engine,
                   temp_files, approach_i, lang_i, psm_i, best_result,
                   best_score, best_approach, executed, response>>

\* lines 333-369: the response, and the removal of the temporary directory
Respond ==
    /\ service = Tesseract
    /\ pc = "returned"
    /\ response' = Some(IF result[1].success THEN OcrResponse(result[1])
                                             ELSE OcrFailure(result[1]))
    /\ temp_files' = { }
    /\ request' = None
    /\ engine' = None
    /\ approach_i' = 0 /\ lang_i' = 0 /\ psm_i' = 0
    /\ best_result' = None /\ best_score' = 0 /\ best_approach' = "none"
    /\ executed' = << >>
    /\ result' = None
    /\ pc' = "idle"
    /\ UNCHANGED <<service, env, call_vars, cleaner_vars, handler_vars,
                   flag_vars, other_flag_vars>>

\* an HTTPException raised by a handler
HttpError(endpoint, status_code, detail) ==
    [endpoint |-> endpoint, status_code |-> status_code,
     success |-> FALSE, text |-> << >>, detail |-> detail]

----------------------------------------------------------------------------
(* PaddleOCR service: python-paddle-service/app.py *)

Paddle == "python-paddle-service"

PaddleStates == { "absent", "broken", "installed" }

PaddleEnvs == [paddleocr : PaddleStates]

\* initialize_paddle_ocr(): the new values of paddle_ocr and paddle_available
InitializePaddleOcr(e) ==
    IF e.paddleocr = "installed" THEN << Some("PaddleOCR"), TRUE >>
    ELSE << None, FALSE >>

\* startup_event()
PaddleStartup ==
    /\ service = Paddle
    /\ pc = "boot"
    /\ paddle_ocr' = InitializePaddleOcr(env)[1]
    /\ paddle_available' = InitializePaddleOcr(env)[2]
    /\ pc' = "idle"
    /\ UNCHANGED <<service, env, call_vars, cleaner_vars, handler_vars,
                   flag_vars, opencv_available,
                   tesseract_available, ocr_service, ocr_processor,
                   request, engine, temp_files, sweep_vars, response>>

\* mock_paddle_ocr_result(): the text is kept as its lines
mock_paddle_ocr_result ==
    [success |-> TRUE,
     text |-> << "Vietnamese document text extracted with PaddleOCR",
                 "Mock processing completed successfully",
                 "Ready for DeepSeek API analysis" >>,
     processing_method |-> "paddleocr-mock",
     note |-> "Mock result - install PaddleOCR for real text extraction",
     error |-> NoKey]

\* what paddle_ocr.ocr() does on an image: it raises, or it finds some lines
PaddleOutcomes ==
    { [raises |-> TRUE, lines |-> << >>],
      [raises |-> FALSE, lines |-> << >>],
      [raises |-> FALSE, lines |-> << "dong 1" >>],
      [raises |-> FALSE, lines |-> << "dong 1", "dong 2" >>] }

\* a PaddleOCR wrapper without the mock branch
process_with_paddle_ocr_unmocked(available, instance, outcome) ==
    IF ~available \/ instance = None \/ outcome.raises
    THEN [success |-> FALSE, text |-> << >>,
          processing_method |-> "paddleocr-error", note |-> NoKey,
          error |-> "ocr raised"]
    ELSE [success |-> TRUE, text |-> outcome.lines,
          processing_method |-> "paddleocr-real", note |-> NoKey,
          error |-> NoKey]

\* process_with_paddle_ocr()
process_with_paddle_ocr(available, instance, outcome) ==
    IF ~available \/ instance = None THEN mock_paddle_ocr_result
    ELSE IF outcome.raises
    THEN [success |-> FALSE, text |-> << >>,
          processing_method |-> "paddleocr-error", note |-> NoKey,
          error |-> "ocr raised"]
    ELSE [success |-> TRUE, text |-> outcome.lines,
          processing_method |-> "paddleocr-real", note |-> NoKey,
          error |-> NoKey]

\* GET /health
PaddleHealth ==
    /\ service = Paddle
    /\ pc = "idle"
    /\ response' = Some([endpoint |-> "/health",
                         status_code |-> 200,
                         status |-> "healthy",
                         paddle_ocr_available |-> paddle_available,
                         supported_languages |->
                             IF paddle_available THEN << "ch", "en", "vi" >>
                             ELSE << "mock" >>])
    /\ UNCHANGED <<service, env, call_vars, cleaner_vars, handler_vars,
                   pc, flag_vars, other_flag_vars, request,
                   engine, temp_files, sweep_vars>>

\* the file NamedTemporaryFile(delete=False) creates for an upload
TempUpload == << "upload" >>

\* POST /paddle-ocr: the upload is written to a temporary file, processed,
\* and the file is unlinked before the response is built (so the files on
\* disk are those of before); when reading or writing the upload raises,
\* the handler answers 500 and the file it created stays
PaddleProcessOcr ==
    /\ service = Paddle
    /\ pc = "idle"
    /\ \/ /\ \E outcome \in PaddleOutcomes :
                LET r == process_with_paddle_ocr(paddle_available, paddle_ocr,
                                                 outcome)
                IN  response' =
                        Some([endpoint |-> "/paddle-ocr",
                              status_code |-> 200,
                              success |-> r.success,
                              text |-> r.text,
                              processing_method |-> r.processing_method,
                              note |-> IF r.note = NoKey THEN "" ELSE r.note])
          /\ UNCHANGED temp_files
       \/ /\ response' = Some(HttpError("/paddle-ocr", 500, UploadError))
          /\ temp_files' = temp_files \cup { TempUpload }
    /\ UNCHANGED <<service, env, call_vars, cleaner_vars, handler_vars,
                   pc, flag_vars, other_flag_vars, request,
                   engine, sweep_vars>>

----------------------------------------------------------------------------
(* OpenCV service: python-opencv-service/app.py *)

OpenCv == "python-opencv-service"

OpenCvEnvs ==
    [cv2_ok : BOOLEAN, tesseract : { "absent", "broken", "installed" }]

\* initialize_opencv() and initialize_tesseract() of the OpenCV service
OpenCvInitializeOpencv(e) == e.cv2_ok
OpenCvInitializeTesseract(e) == e.tesseract = "installed"

\* startup_event()
OpenCvStartup ==
    /\ service = OpenCv
    /\ pc = "boot"
    /\ opencv_available' = OpenCvInitializeOpencv(env)
    /\ tesseract_available' = OpenCvInitializeTesseract(env)
    /\ pc' = "idle"
    /\ UNCHANGED <<service, env, call_vars, cleaner_vars, handler_vars,
                   flag_vars, paddle_ocr, paddle_available,
                   ocr_service, ocr_processor, request, engine, temp_files,
                   sweep_vars, response>>

\* mock_opencv_processing()
mock_opencv_processing ==
    [success |-> TRUE,
     processed_image_path |-> "upload_mock_processed",
     processing_method |-> "opencv-mock",
     note |-> "Mock result - install OpenCV for real image processing"]

\* enhance_image_opencv()
enhance_image_opencv(available, readable) ==
    IF ~available THEN mock_opencv_processing
    ELSE IF ~readable
    THEN [success |-> FALSE, processed_image_path |-> "upload",
          processing_method |-> "opencv-error", note |-> NoKey]
    ELSE [success |-> TRUE, processed_image_path |-> "upload_opencv_processed",
          processing_method |-> "opencv-real", note |-> NoKey]

\* mock_tesseract_ocr(): the text is kept as its lines
mock_tesseract_ocr ==
    [success |-> TRUE,
     text |-> << "Vietnamese document text extracted with OpenCV preprocessing",
                 "Tesseract OCR processing completed",
                 "Enhanced text recognition accuracy" >>,
     processing_method |-> "tesseract-mock",
     note |-> "Mock result - install Tesseract for real OCR",
     error |-> NoKey]

\* what the tesseract command does for the OpenCV service's single call
OpenCvEngineOutcomes == { NonZeroExit, TimedOut, Printed(0), Printed(MaxShort) }

\* run_tesseract_ocr()
run_tesseract_ocr(available, outcome, language, psm_mode) ==
    IF ~available THEN mock_tesseract_ocr
    ELSE IF outcome.kind = "exit" /\ outcome.returncode = 0
    THEN [success |-> TRUE,
          text |-> Strip(Stdout(outcome.n, << "upload", language, psm_mode >>)),
          processing_method |-> "tesseract-real", note |-> NoKey,
          error |-> NoKey]
    ELSE [success |-> FALSE, text |-> << >>,
          processing_method |-> "tesseract-error", note |-> NoKey,
          error |-> "Tesseract failed"]

\* GET /health: the supported features
OpenCvFeatures(cv, tess) ==
    LET features == (IF cv THEN << "image_enhancement", "noise_reduction",
                                   "deskewing", "contrast_adjustment" >>
                     ELSE << >>)
                    \o (IF tess THEN << "ocr_processing" >> ELSE << >>)
    IN  IF features = << >> THEN << "mock_processing" >> ELSE features

OpenCvHealth ==
    /\ service = OpenCv
    /\ pc = "idle"
    /\ response' = Some([endpoint |-> "/health",
                         status_code |-> 200,
                         status |-> "healthy",
                         opencv_available |-> opencv_available,
                         tesseract_available |-> tesseract_available,
                         supported_features |->
                             OpenCvFeatures(opencv_available,
                                            tesseract_available)])
    /\ UNCHANGED <<service, env, call_vars, cleaner_vars, handler_vars,
                   pc, flag_vars, other_flag_vars, request,
                   engine, temp_files, sweep_vars>>

\* POST /process-image: the upload is unlinked after the enhancement, the
\* processed image is left where the response says; when reading or writing
\* the upload raises, the handler answers 500 and the file it created stays
OpenCvProcessImage ==
    /\ service = OpenCv
    /\ pc = "idle"
    /\ \/ \E readable \in BOOLEAN :
             LET r == enhance_image_opencv(opencv_available, readable)
             IN  /\ response' = Some([endpoint |-> "/process-image",
                                      status_code |-> 200,
                                      success |-> r.success,
                                      processed_image_path |->
                                          r.processed_image_path,
                                      processing_method |->
                                          r.processing_method])
                 /\ temp_files' = IF r.processed_image_path = "upload"
                                  THEN temp_files
                                  ELSE temp_files
                                       \cup { << r.processed_image_path >> }
       \/ /\ response' = Some(HttpError("/process-image", 500, UploadError))
          /\ temp_files' = temp_files \cup { TempUpload }
    /\ UNCHANGED <<service, env, call_vars, cleaner_vars, handler_vars,
                   pc, flag_vars, other_flag_vars, request,
                   engine, sweep_vars>>

\* POST /ocr, lines 490-504: the image handed to the OCR step
ProcessedImagePathUnchecked(preprocess, preprocessing_result) ==
    IF preprocess THEN "upload_opencv_processed" ELSE "upload"

ProcessedImagePath(preprocess, preprocessing_result) ==
    IF preprocess /\ preprocessing_result.success
    THEN preprocessing_result.processed_image_path
    ELSE "upload"

\* POST /ocr: optional preprocessing, then one OCR call on the processed
\* image (on the upload when preprocessing failed); both files are unlinked;
\* when reading or writing the upload raises, the handler answers 500 and
\* the file it created stays.  `outcome` is what the tesseract command does
\* on the image it is given.
OpenCvOcr ==
    /\ service = OpenCv
    /\ pc = "idle"
    /\ \E preprocess \in BOOLEAN, readable \in BOOLEAN,
          language \in RequestLanguages, outcome \in OpenCvEngineOutcomes :
          /\ call' = Some([endpoint |-> "/ocr", preprocess |-> preprocess,
                           readable |-> readable, language |-> language,
                           outcome |-> outcome])
          /\ \/ LET preprocessing_result ==
                        enhance_image_opencv(opencv_available, readable)
                    processed_image_path ==
                        ProcessedImagePath(preprocess, preprocessing_result)
                    ocr_result ==
                        run_tesseract_ocr(tesseract_available, outcome,
                                          language, 6)
                IN  /\ response' =
                          Some([endpoint |-> "/ocr",
                                status_code |-> 200,
                                success |-> ocr_result.success,
                                text |-> ocr_result.text,
                                processing_method |->
                                    ocr_result.processing_method,
                                note |-> IF ocr_result.note = NoKey THEN ""
                                         ELSE ocr_result.note])
                    /\ effects' =
                          (IF preprocess
                           THEN << [op |-> "enhance_image_opencv",
                                    success |-> preprocessing_result.success,
                                    image |-> "upload"] >>
                           ELSE << >>)
                          \o << [op |-> "run_tesseract_ocr",
                                 success |-> ocr_result.success,
                                 image |-> processed_image_path] >>
                    /\ UNCHANGED temp_files
             \/ /\ response' = Some(HttpError("/ocr", 500, UploadError))
                /\ effects' = << >>
                /\ temp_files' = temp_files \cup { TempUpload }
    /\ UNCHANGED <<service, env, cleaner_vars, handler_vars,
                   pc, flag_vars, other_flag_vars, request,
                   engine, sweep_vars>>

----------------------------------------------------------------------------
(* Vietnamese OCR service: python-ocr-service/app.py *)

OcrService == "python-ocr-service"

\* libs: whether PIL, pytesseract and pdf2image import (OCR_AVAILABLE)
OcrServiceEnvs ==
    [libs : BOOLEAN, tesseract : { "absent", "no_vie", "installed" }]

\* VietnameseOCRService._verify_tesseract_installation()
VerifyTesseractInstallation(e) ==
    IF ~e.libs \/ e.tesseract = "absent"
    THEN [tesseract_available |-> FALSE, vietnamese_available |-> FALSE]
    ELSE [tesseract_available |-> TRUE,
          vietnamese_available |-> e.tesseract = "installed"]

\* `ocr_service = VietnameseOCRService()` at import
OcrServiceStartup ==
    /\ service = OcrService
    /\ pc = "boot"
    /\ ocr_service' = VerifyTesseractInstallation(env)
    /\ pc' = "idle"
    /\ UNCHANGED <<service, env, call_vars, cleaner_vars, handler_vars,
                   flag_vars, paddle_ocr, paddle_available,
                   opencv_available, tesseract_available, ocr_processor,
                   request, engine, temp_files, sweep_vars, response>>

\* the sample pages of _process_pdf_fallback, by kind of document
FallbackText(is_vietnamese_doc) ==
    IF is_vietnamese_doc THEN << "CONG HOA XA HOI CHU NGHIA VIET NAM" >>
    ELSE << "DOCUMENT SAMPLE" >>

\* VietnameseOCRService._process_pdf_fallback()
ProcessPdfFallback(is_vietnamese_doc) ==
    [success |-> TRUE,
     text |-> FallbackText(is_vietnamese_doc),
     processing_mode |-> "enhanced_fallback",
     language |-> NoKey, requested_language |-> NoKey]

\* `language if (language == "vie" and self.vietnamese_available) else "eng"`
OcrLanguage(language, vietnamese_available) ==
    IF language = "vie" /\ vietnamese_available THEN language ELSE "eng"

\* what conversion and recognition do on the PDF: they raise, or yield pages
PdfOutcomes ==
    { [raises |-> TRUE, pages |-> << >>],
      [raises |-> FALSE, pages |-> << >>],
      [raises |-> FALSE, pages |-> << "trang 1" >>] }

\* VietnameseOCRService._process_pdf_tesseract()
ProcessPdfTesseract(outcome, language, vietnamese_available) ==
    IF outcome.raises
    THEN [success |-> FALSE, text |-> << >>,
          processing_mode |-> "tesseract_enhanced", language |-> NoKey,
          requested_language |-> NoKey]
    ELSE [success |-> TRUE, text |-> outcome.pages,
          processing_mode |-> "tesseract_enhanced",
          language |-> OcrLanguage(language, vietnamese_available),
          requested_language |-> language]

\* VietnameseOCRService.process_pdf_file()
ProcessPdfFile(svc, outcome, language, is_vietnamese_doc) ==
    IF ~svc.tesseract_available THEN ProcessPdfFallback(is_vietnamese_doc)
    ELSE ProcessPdfTesseract(outcome, language, svc.vietnamese_available)

\* the languages requests name
OcrLanguages == { "vie", "eng", "fra" }

\* the languages pytesseract.get_languages() reports on the host: English
\* alone, or every language pack
AvailableLanguages(e) ==
    IF e.tesseract = "installed" THEN OcrLanguages ELSE { "eng" }

\* POST /ocr/process, lines 736-747: the language handed to the service
EndpointLanguage(svc, e, language) ==
    IF svc.tesseract_available /\ language \notin AvailableLanguages(e)
    THEN "eng" ELSE language

\* the names uploads come with: a stem and an extension
Filenames == { << "a", ".pdf" >>, << "b", ".pdf" >>, << "a", ".PDF" >>,
               << "a", ".png" >> }

\* str.lower() on the extensions above
Lower(ext) == IF ext = ".PDF" THEN ".pdf" ELSE ext

\* every file passes for a PDF
IsPdfAny(filename) == TRUE

\* `file.filename.lower().endswith('.pdf')`
IsPdf(filename) == Lower(filename[2]) = ".pdf"

\* line 728: f"ocr_{datetime.now().strftime('%Y%m%d_%H%M%S')}_{filename}"
FileId(second, filename) == << "ocr", second, filename >>

\* line 551: self.temp_dir / f"{file_id}.pdf"
TempPdfPath(file_id) == << "ocr_service", file_id, ".pdf" >>

\* the arguments of a call of POST /ocr/process
ProcessOcrCall(filename, language) ==
    [endpoint |-> "/ocr/process", filename |-> filename,
     language |-> language]

\* the requests python-ocr-service can hold at a time
Slots == 1 .. MaxRequests

\* the slots whose request is in flight
InFlight == { s \in Slots : in_flight[s] # None }

\* GET /health
OcrServiceHealth ==
    /\ service = OcrService
    /\ pc = "idle"
    /\ response' = Some([endpoint |-> "/health",
                         status_code |-> 200,
                         status |-> "healthy",
                         tesseract_available |->
                             ocr_service.tesseract_available,
                         vietnamese_available |->
                             ocr_service.vietnamese_available,
                         processing_mode |->
                             IF ocr_service.tesseract_available
                             THEN "tesseract" ELSE "fallback"])
    /\ UNCHANGED <<service, env, call_vars, cleaner_vars, handler_vars,
                   pc, flag_vars, other_flag_vars,
                   request, engine, temp_files, sweep_vars>>

\* the clock of the host passes to the next second
Tick ==
    /\ service = OcrService
    /\ pc = "idle"
    /\ now < MaxSeconds
    /\ now' = now + 1
    /\ UNCHANGED <<service, env, call_vars, cleaner_vars,
                   pc, flag_vars, other_flag_vars, request,
                   engine, temp_files, sweep_vars, response, in_flight,
                   temp_paths>>

\* POST /ocr/process, lines 722-727: a file that is not a PDF is refused,
\* otherwise the handler waits for the upload (`await file.read()`) and
\* other requests are served meanwhile.  A request records the requests it
\* is served together with (peers).
OcrServiceReceive ==
    /\ service = OcrService
    /\ pc = "idle"
    /\ UNCHANGED <<service, env, call_vars, cleaner_vars,
                   pc, flag_vars, other_flag_vars, request,
                   engine, temp_files, sweep_vars, now>>
    /\ \E slot \in Slots \ InFlight, filename \in Filenames :
          IF ~IsPdf(filename)
          THEN /\ response' = Some(HttpError("/ocr/process", 400,
                                             "Only PDF files are supported"))
               /\ UNCHANGED <<in_flight, temp_paths>>
          ELSE /\ response' = None
               /\ in_flight' =
                     [s \in Slots |->
                         IF s = slot
                         THEN Some([filename |-> filename, peers |-> InFlight])
                         ELSE IF in_flight[s] = None THEN None
                         ELSE Some([in_flight[s][1] EXCEPT
                                        !.peers = @ \cup { slot }])]
               /\ temp_paths' =
                     [s \in Slots |->
                         IF s = slot \/ temp_paths[s] = None THEN None
                         ELSE Some([temp_paths[s][1] EXCEPT
                                        !.peers = @ \ { slot }])]

\* the OCRResponse of lines 766-781, returned when the handler caught an
\* exception of its own (the upload could not be read)
EndpointError ==
    [endpoint |-> "/ocr/process", status_code |-> 200, success |-> FALSE,
     text |-> << >>, processing_mode |-> "error_fallback",
     language |-> NoKey, requested_language |-> NoKey]

\* the requests whose upload has arrived: reading it raises, it is empty,
\* or it is a document in a language on which conversion and recognition
\* go one way or another (what is not looked at is left at a default)
Uploads ==
    LET Unread(read_raises, empty) ==
            [read_raises |-> read_raises, empty |-> empty,
             is_vietnamese_doc |-> FALSE, language |-> "vie",
             outcome |-> [raises |-> TRUE, pages |-> << >>]]
    IN  { Unread(TRUE, FALSE), Unread(FALSE, TRUE) }
        \cup [read_raises : { FALSE }, empty : { FALSE },
              is_vietnamese_doc : BOOLEAN, language : OcrLanguages,
              outcome : PdfOutcomes]

\* POST /ocr/process, lines 727-757: the upload has arrived; from here to the
\* response the handler never yields, so the temporary PDF is written (line
\* 552) and unlinked (line 663) within the step
OcrServiceProcess ==
    /\ service = OcrService
    /\ pc = "idle"
    /\ \E slot \in InFlight :
          LET filename == in_flight[slot][1].filename
              file_id == FileId(now, filename)
          IN  /\ \E u \in Uploads :
                    LET read_raises == u.read_raises
                        empty == u.empty
                        is_vietnamese_doc == u.is_vietnamese_doc
                        language == u.language
                        outcome == u.outcome
                    IN
                    /\ response' = Some(
                          IF read_raises THEN EndpointError
                          ELSE IF empty
                          THEN HttpError("/ocr/process", 400,
                                         "Empty file uploaded")
                          ELSE LET r == ProcessPdfFile(
                                       ocr_service, outcome,
                                       EndpointLanguage(ocr_service, env,
                                                        language),
                                       is_vietnamese_doc)
                               IN  [endpoint |-> "/ocr/process",
                                    status_code |-> 200,
                                    success |-> r.success,
                                    text |-> r.text,
                                    processing_mode |-> r.processing_mode,
                                    language |-> r.language,
                                    requested_language |->
                                        r.requested_language])
                    /\ temp_paths' =
                          [temp_paths EXCEPT ![slot] =
                              IF read_raises \/ empty
                                 \/ ~ocr_service.tesseract_available
                              THEN None
                              ELSE Some([path |-> TempPdfPath(file_id),
                                         peers |-> in_flight[slot][1].peers])]
              /\ in_flight' = [in_flight EXCEPT ![slot] = None]
    /\ UNCHANGED <<service, env, call_vars, cleaner_vars,
                   pc, flag_vars, other_flag_vars, request,
                   engine, temp_files, sweep_vars, now>>

----------------------------------------------------------------------------
(* The text cleaner: VietnameseTextCleaner, python-ocr-service/app.py.     *)
(* A character outside ASCII is written by its code point, "U+221A".       *)

\* the characters `\d` matches
Digits == { "0", "1", "2", "3", "4", "5", "6", "7", "8", "9" }

\* the letters str.lower() changes, and what it makes of them
UpperCase ==
    << "A", "B", "C", "D", "E", "F", "G", "H", "I", "J", "K", "L", "M", "N",
       "O", "P", "Q", "R", "S", "T", "U", "V", "W", "X", "Y", "Z", "U+00C5",
       "U+00C7", "U+00C9", "U+00D6", "U+00D8", "U+00DC", "U+03A9" >>
LowerCase ==
    << "a", "b", "c", "d", "e", "f", "g", "h", "i", "j", "k", "l", "m", "n",
       "o", "p", "q", "r", "s", "t", "u", "v", "w", "x", "y", "z", "U+00E5",
       "U+00E7", "U+00E9", "U+00F6", "U+00F8", "U+00FC", "U+03C9" >>

LowerMap ==
    [c \in { UpperCase[k] : k \in 1 .. Len(UpperCase) } |->
        LowerCase[CHOOSE k \in 1 .. Len(UpperCase) : UpperCase[k] = c]]

LowerChar(c) == IF c \in DOMAIN LowerMap THEN LowerMap[c] ELSE c

\* str.lower()
LowerText(s) == [i \in 1 .. Len(s) |-> LowerChar(s[i])]

\* the characters `\w` matches: ASCII letters, digits, the underscore, and
\* the alphanumeric characters outside ASCII that occur in the program
WordChars ==
    { UpperCase[k] : k \in 1 .. Len(UpperCase) }
    \cup { LowerCase[k] : k \in 1 .. Len(LowerCase) }
    \cup Digits \cup { "_" }
    \cup
    { "U+00AA", "U+00B5", "U+00C5", "U+00C7", "U+00C9", "U+00D6", "U+00D8",
      "U+00DC", "U+00DF", "U+00E0", "U+00E1", "U+00E2", "U+00E3", "U+00E7",
      "U+00E8", "U+00EA", "U+00EB", "U+00EC", "U+00ED", "U+00EE", "U+00EF",
      "U+00F2", "U+00F3", "U+00F4", "U+00F5", "U+00F6", "U+00F8", "U+00F9",
      "U+00FC", "U+0192", "U+03A9", "U+03C0" }

\* the characters named in the class of line 210 besides `\w` and `\s`
KeptChars ==
    { "!", "\"", "%", "&", "'", "(", ")", ",", "-", ".", "/", ":", ";", "?",
      "[", "]", "U+00A2", "U+00A3", "U+00A5", "U+00A8", "U+00A9", "U+00AC",
      "U+00AE", "U+00B0", "U+00B1", "U+00B4", "U+00B7", "U+2020", "U+2022",
      "U+2122", "U+2206", "U+2211", "U+221A", "U+221E", "U+222B", "U+2248",
      "U+2260", "U+2264", "U+2265" }

\* `[^\w\s\-.,;:!?...]`: a character the noise filter replaces
IsNoise(c) == c \notin (WordChars \cup Whitespace \cup KeptChars)

\* self.common_mistakes, in the order of the dict (lines 145-182)
common_mistakes ==
    <<
      <<
        << "C", "O", "N", "G", " ", "H", "O", "A", " ", "X", "A", " ", "H",
           "O", "I", " ", "C", "H", "U", " ", "N", "G", "H", "I", "A", " ",
           "V", "I", "E", "T", " ", "N", "A", "M" >>,
        << "C", "U+00B7", "U+00AA", "U+00F2", "N", "G", " ", "H", "U+221A",
           "U+00ED", "A", " ", "X", "U+221A", "U+00C9", " ", "H", "U+00B7",
           "U+00AA", "U+00F2", "I", " ", "C", "H", "U+00B7", "U+00AA",
           "U+00B6", " ", "N", "G", "H", "U+0192", "U+00AE", "A", " ", "V",
           "I", "U+00B7", "U+00AA", "U+00DC", "T", " ", "N", "A", "M" >>
      >>,
      <<
        << "D", "o", "c", " ", "l", "a", "p", " ", "T", "u", " ", "d", "o",
           " ", "H", "a", "n", "h", " ", "p", "h", "u", "c" >>,
        << "U+0192", "U+00EA", "U+00B7", "U+00AA", "U+00F4", "c", " ", "l",
           "U+00B7", "U+222B", "U+2260", "p", " ", "-", " ", "T", "U+00B7",
           "U+00AA", "U+00B1", " ", "d", "o", " ", "-", " ", "H", "U+00B7",
           "U+222B", "U+00B0", "n", "h", " ", "p", "h", "U+221A", "U+222B",
           "c" >>
      >>,
      <<
        << "C", "A", "N", " ", "C", "U", "O", "C", " ", "C", "O", "N", "G",
           " ", "D", "A", "N" >>,
        << "C", "U+0192", "U+00C7", "N", " ", "C", "U+2206", "U+00D8",
           "U+00B7", "U+00AA", "U+00F6", "C", " ", "C", "U+221A", "U+00EE",
           "N", "G", " ", "D", "U+221A", "U+00C7", "N" >>
      >>,
      <<
        << "C", "C", "C", "D" >>,
        << "C", "C", "C", "D" >>
      >>,
      <<
        << "H", "o", " ", "v", "a", " ", "t", "e", "n" >>,
        << "H", "U+00B7", "U+00AA", "U+00E7", " ", "v", "U+221A", "U+2020",
           " ", "t", "U+221A", "U+2122", "n" >>
      >>,
      <<
        << "N", "g", "a", "y", " ", "s", "i", "n", "h" >>,
        << "N", "g", "U+221A", "U+2020", "y", " ", "s", "i", "n", "h" >>
      >>,
      <<
        << "G", "i", "o", "i", " ", "t", "i", "n", "h" >>,
        << "G", "i", "U+00B7", "U+00AA", "U+00F5", "i", " ", "t", "U+221A",
           "U+2260", "n", "h" >>
      >>,
      <<
        << "Q", "u", "o", "c", " ", "t", "i", "c", "h" >>,
        << "Q", "u", "U+00B7", "U+00AA", "U+00EB", "c", " ", "t", "U+00B7",
           "U+00AA", "U+00E3", "c", "h" >>
      >>,
      <<
        << "Q", "u", "e", " ", "q", "u", "a", "n" >>,
        << "Q", "u", "U+221A", "U+2122", " ", "q", "u", "U+221A", "U+00B0",
           "n" >>
      >>,
      <<
        << "N", "o", "i", " ", "t", "h", "u", "o", "n", "g", " ", "t", "r",
           "u" >>,
        << "N", "U+2206", "U+00B0", "i", " ", "t", "h", "U+2206", "U+221E",
           "U+00B7", "U+00AA", "U+00F9", "n", "g", " ", "t", "r", "U+221A",
           "U+222B" >>
      >>,
      <<
        << "N", "o", "i", " ", "c", "a", "p" >>,
        << "N", "U+2206", "U+00B0", "i", " ", "c", "U+00B7", "U+222B",
           "U+2022", "p" >>
      >>,
      <<
        << "N", "g", "a", "y", " ", "c", "a", "p" >>,
        << "N", "g", "U+221A", "U+2020", "y", " ", "c", "U+00B7", "U+222B",
           "U+2022", "p" >>
      >>,
      <<
        << "C", "o", " ", "g", "i", "a", "i", " ", "h", "a", "n", " ", "d",
           "e", "n" >>,
        << "C", "U+221A", "U+2265", " ", "g", "i", "U+221A", "U+00B0", " ",
           "t", "r", "U+00B7", "U+00AA", "U+00E3", " ", "U+0192", "U+00EB",
           "U+00B7", "U+222B", "U+00F8", "n" >>
      >>,
      <<
        << "H", "a", " ", "N", "o", "i" >>,
        << "H", "U+221A", "U+2020", " ", "N", "U+00B7", "U+00AA", "U+00F4",
           "i" >>
      >>,
      <<
        << "H", "o", " ", "C", "h", "i", " ", "M", "i", "n", "h" >>,
        << "H", "U+00B7", "U+00AA", "U+00EC", " ", "C", "h", "U+221A",
           "U+2260", " ", "M", "i", "n", "h" >>
      >>,
      <<
        << "D", "a", " ", "N", "a", "n", "g" >>,
        << "U+0192", "U+00EA", "U+221A", "U+2020", " ", "N", "U+00B7",
           "U+222B", "U+00B5", "n", "g" >>
      >>,
      <<
        << "H", "a", "i", " ", "P", "h", "o", "n", "g" >>,
        << "H", "U+00B7", "U+222B", "U+00A3", "i", " ", "P", "h", "U+221A",
           "U+2264", "n", "g" >>
      >>,
      <<
        << "C", "a", "n", " ", "T", "h", "o" >>,
        << "C", "U+00B7", "U+222B", "U+00DF", "n", " ", "T", "h", "U+2206",
           "U+00B0" >>
      >>,
      <<
        << "N", "a", "m", " ", "T", "u", " ", "L", "i", "e", "m" >>,
        << "N", "a", "m", " ", "T", "U+00B7", "U+00AA", "U+00B4", " ", "L",
           "i", "U+221A", "U+2122", "m" >>
      >>,
      <<
        << "C", "a", "u", " ", "G", "i", "a", "y" >>,
        << "C", "U+00B7", "U+222B", "U+00DF", "u", " ", "G", "i", "U+00B7",
           "U+222B", "U+2022", "y" >>
      >>,
      <<
        << "D", "o", "n", "g", " ", "D", "a" >>,
        << "U+0192", "U+00EA", "U+00B7", "U+00AA", "U+00EB", "n", "g", " ",
           "U+0192", "U+00EA", "a" >>
      >>,
      <<
        << "B", "a", " ", "D", "i", "n", "h" >>,
        << "B", "a", " ", "U+0192", "U+00EA", "U+221A", "U+00A8", "n", "h" >>
      >>,
      <<
        << "H", "o", "a", "n", " ", "K", "i", "e", "m" >>,
        << "H", "o", "U+221A", "U+2020", "n", " ", "K", "i", "U+00B7",
           "U+222B", "U+00F8", "m" >>
      >>,
      <<
        << "r", "n" >>,
        << "m" >>
      >>,
      <<
        << "c", "l" >>,
        << "d" >>
      >>,
      <<
        << "f", "i" >>,
        << "f", "i" >>
      >>,
      <<
        << "f", "l" >>,
        << "f", "l" >>
      >>,
      <<
        << "0" >>,
        << "O" >>
      >>,
      <<
        << "1" >>,
        << "I" >>
      >>
    >>

\* the canonical compositions unicodedata.normalize('NFC', ...) makes of
\* the characters above: a letter and the combining mark after it
Compositions == [p \in { << "a", "U+0300" >> } |-> "U+00E0"]

\* unicodedata.normalize('NFC', cleaned)
RECURSIVE NormalizeNfc(_)
NormalizeNfc(s) ==
    IF s = << >> THEN << >>
    ELSE IF Len(s) >= 2 /\ << s[1], s[2] >> \in DOMAIN Compositions
    THEN << Compositions[<< s[1], s[2] >>] >>
         \o NormalizeNfc(SubSeq(s, 3, Len(s)))
    ELSE << Head(s) >> \o NormalizeNfc(Tail(s))

\* re.sub(r'\s+', ' ', cleaned)
RECURSIVE CollapseWhitespace(_)
CollapseWhitespace(s) ==
    IF s = << >> THEN << >>
    ELSE IF Head(s) \in Whitespace
    THEN << " " >> \o CollapseWhitespace(LStrip(s))
    ELSE << Head(s) >> \o CollapseWhitespace(Tail(s))

\* the end of the match of `\n\s*\n` (and of `\n\s*\n+`) that starts at the
\* line break s[i]: the last line break of the whitespace after it, or 0
MatchNewlines(s, i) ==
    LET after == SubSeq(s, i + 1, Len(s))
        run == Len(after) - Len(LStrip(after))
        breaks == { j \in (i + 1) .. (i + run) : s[j] = "\n" }
    IN  IF breaks = { } THEN 0
        ELSE CHOOSE j \in breaks : \A k \in breaks : k <= j

\* re.sub(r'\n\s*\n', '\n', ...) with `by` = << "\n" >>, and
\* re.sub(r'\n\s*\n+', '\n\n', ...) with `by` = << "\n", "\n" >>
RECURSIVE CollapseNewlines(_, _, _)
CollapseNewlines(s, i, by) ==
    IF i > Len(s) THEN << >>
    ELSE IF s[i] = "\n" /\ MatchNewlines(s, i) > 0
    THEN by \o CollapseNewlines(s, MatchNewlines(s, i) + 1, by)
    ELSE << s[i] >> \o CollapseNewlines(s, i + 1, by)

\* re.sub(r'[^\w\s\-.,;:!?...]', ' ', cleaned)
RemoveNoise(s) == [i \in 1 .. Len(s) |-> IF IsNoise(s[i]) THEN " " ELSE s[i]]

\* the pattern (lower case) matches the text (lower case) at i
MatchAt(low, i, pattern) ==
    /\ i + Len(pattern) - 1 <= Len(low)
    /\ \A j \in 1 .. Len(pattern) : low[i + j - 1] = pattern[j]

\* `mistake.lower() in cleaned.lower()`
Contains(low, pattern) ==
    \E i \in 1 .. (Len(low) - Len(pattern) + 1) : MatchAt(low, i, pattern)

\* re.sub(re.escape(mistake), correction, cleaned, flags=re.IGNORECASE)
RECURSIVE ReplaceIgnoreCase(_, _, _, _, _)
ReplaceIgnoreCase(s, low, i, pattern, correction) ==
    IF i > Len(s) THEN << >>
    ELSE IF MatchAt(low, i, pattern)
    THEN correction
         \o ReplaceIgnoreCase(s, low, i + Len(pattern), pattern, correction)
    ELSE << s[i] >> \o ReplaceIgnoreCase(s, low, i + 1, pattern, correction)

\* the loop of lines 214-217, from the k-th entry of the dictionary on
RECURSIVE FixMistakes(_, _, _)
FixMistakes(s, imps, k) ==
    IF k > Len(common_mistakes)
    THEN [cleaned |-> s, improvements |-> imps]
    ELSE LET mistake == common_mistakes[k][1]
             correction == common_mistakes[k][2]
             low == LowerText(s)
             pattern == LowerText(mistake)
         IN  IF Contains(low, pattern)
             THEN FixMistakes(
                      ReplaceIgnoreCase(s, low, 1, pattern, correction),
                      Append(imps, << "Fixed", mistake, correction >>),
                      k + 1)
             ELSE FixMistakes(s, imps, k + 1)

\* VietnameseTextCleaner._fix_vietnamese_diacritics(): `return text`
FixVietnameseDiacritics(s) == s

\* s[i] exists and lies in the class
InClass(s, i, class) == i <= Len(s) /\ s[i] \in class

\* n digits stand at s[i .. i+n-1]
DigitsAt(s, i, n) == \A j \in 0 .. (n - 1) : InClass(s, i + j, Digits)

DateSeparators == { ".", "/", "-" }

\* `(\d{1,2})[\.\/\-]` at i: the number of digits matched, 0 for no match
DayLen(s, i) ==
    IF DigitsAt(s, i, 2) /\ InClass(s, i + 2, DateSeparators) THEN 2
    ELSE IF DigitsAt(s, i, 1) /\ InClass(s, i + 1, DateSeparators) THEN 1
    ELSE 0

\* `(\d{1,2})[\.\/\-](\d{1,2})[\.\/\-](\d{4})` at i: the lengths of the
\* day and of the month, << >> for no match
DateAt(s, i) ==
    LET d == DayLen(s, i)
        m == DayLen(s, i + d + 1)
    IN  IF d > 0 /\ m > 0 /\ DigitsAt(s, i + d + m + 2, 4)
        THEN << d, m >> ELSE << >>

\* re.sub(<the date pattern>, r'\1/\2/\3', text), from i on
RECURSIVE FixDatesFrom(_, _)
FixDatesFrom(s, i) ==
    IF i > Len(s) THEN << >>
    ELSE LET at == DateAt(s, i)
         IN  IF at = << >> THEN << s[i] >> \o FixDatesFrom(s, i + 1)
             ELSE LET d == at[1]
                      m == at[2]
                  IN  SubSeq(s, i, i + d - 1) \o << "/" >>
                      \o SubSeq(s, i + d + 1, i + d + m) \o << "/" >>
                      \o SubSeq(s, i + d + m + 2, i + d + m + 5)
                      \o FixDatesFrom(s, i + d + m + 6)

\* VietnameseTextCleaner._fix_date_formats()
FixDateFormats(s) == FixDatesFrom(s, 1)

\* the first position from i on that holds no character of the class
RECURSIVE Skip(_, _, _)
Skip(s, i, class) ==
    IF InClass(s, i, class) THEN Skip(s, i + 1, class) ELSE i

\* `(\d{3})\s*(\d{3})\s*(\d{3})\s*(\d{3})` at i: where the four groups
\* start, << >> for no match
IdAt(s, i) ==
    LET g2 == Skip(s, i + 3, Whitespace)
        g3 == Skip(s, g2 + 3, Whitespace)
        g4 == Skip(s, g3 + 3, Whitespace)
    IN  IF /\ DigitsAt(s, i, 3) /\ DigitsAt(s, g2, 3)
           /\ DigitsAt(s, g3, 3) /\ DigitsAt(s, g4, 3)
        THEN << i, g2, g3, g4 >> ELSE << >>

\* re.sub(<the ID pattern>, r'\1\2\3\4', text), from i on
RECURSIVE FixIdsFrom(_, _)
FixIdsFrom(s, i) ==
    IF i > Len(s) THEN << >>
    ELSE LET at == IdAt(s, i)
         IN  IF at = << >> THEN << s[i] >> \o FixIdsFrom(s, i + 1)
             ELSE SubSeq(s, at[1], at[1] + 2) \o SubSeq(s, at[2], at[2] + 2)
                  \o SubSeq(s, at[3], at[3] + 2)
                  \o SubSeq(s, at[4], at[4] + 2)
                  \o FixIdsFrom(s, at[4] + 3)

PhoneSeparators == Whitespace \cup { "-" }

\* `(\+84|0)` at i: the length of the prefix, 0 for no match
PrefixLen(s, i) ==
    IF InClass(s, i, { "+" }) /\ InClass(s, i + 1, { "8" })
       /\ InClass(s, i + 2, { "4" }) THEN 3
    ELSE IF InClass(s, i, { "0" }) THEN 1
    ELSE 0

\* the lengths `\d{2,3}` and `\d{3,4}` try, in the order they are tried
PhoneGroupings == << << 3, 4 >>, << 3, 3 >>, << 2, 4 >>, << 2, 3 >> >>

\* the phone pattern at i with the k-th grouping: where the three digit
\* groups start and where the match ends, << >> for no match
PhoneWith(s, i, k) ==
    LET a == PhoneGroupings[k][1]
        c == PhoneGroupings[k][2]
        g2 == Skip(s, i + PrefixLen(s, i), PhoneSeparators)
        g3 == Skip(s, g2 + a, PhoneSeparators)
        g4 == Skip(s, g3 + 3, PhoneSeparators)
    IN  IF /\ PrefixLen(s, i) > 0 /\ DigitsAt(s, g2, a)
           /\ DigitsAt(s, g3, 3) /\ DigitsAt(s, g4, c)
        THEN << g2, a, g3, g4, c >> ELSE << >>

\* `(\+84|0)[\s\-]*(\d{2,3})[\s\-]*(\d{3})[\s\-]*(\d{3,4})` at i
PhoneAt(s, i) ==
    LET ks == { k \in 1 .. Len(PhoneGroupings) : PhoneWith(s, i, k) # << >> }
    IN  IF ks = { } THEN << >>
        ELSE PhoneWith(s, i, CHOOSE k \in ks : \A j \in ks : k <= j)

\* re.sub(<the phone pattern>, r'\1\2\3\4', text), from i on
RECURSIVE FixPhonesFrom(_, _)
FixPhonesFrom(s, i) ==
    IF i > Len(s) THEN << >>
    ELSE LET at == PhoneAt(s, i)
         IN  IF at = << >> THEN << s[i] >> \o FixPhonesFrom(s, i + 1)
             ELSE SubSeq(s, i, i + PrefixLen(s, i) - 1)
                  \o SubSeq(s, at[1], at[1] + at[2] - 1)
                  \o SubSeq(s, at[3], at[3] + 2)
                  \o SubSeq(s, at[4], at[4] + at[5] - 1)
                  \o FixPhonesFrom(s, at[4] + at[5])

\* VietnameseTextCleaner._fix_numbers()
FixNumbers(s) == FixPhonesFrom(FixIdsFrom(s, 1), 1)

\* step 3 of clean_vietnamese_text (lines 208-210)
RemoveWhitespaceAndNoise(s) ==
    RemoveNoise(CollapseNewlines(CollapseWhitespace(s), 1, << "\n" >>))

\* a final cleanup without the strip()
FinalCleanupUnstripped(s) ==
    CollapseNewlines(CollapseWhitespace(s), 1, << "\n", "\n" >>)

\* step 8 of clean_vietnamese_text (lines 232-233)
FinalCleanup(s) ==
    CollapseNewlines(Strip(CollapseWhitespace(s)), 1, << "\n", "\n" >>)

\* `len(cleaned.split('\n'))`, the line_count of the statistics
LineCount(s) == 1 + Cardinality({ i \in 1 .. Len(s) : s[i] = "\n" })

\* the entries clean_vietnamese_text appends to `improvements`
UnicodeApplied == << "Unicode normalization applied" >>
NoiseRemoved == << "Removed noise characters and normalized spacing" >>
DiacriticsApplied == << "Vietnamese diacritics correction applied" >>
DatesNormalized == << "Date formats normalized" >>
NumbersNormalized == << "Number formats normalized" >>

\* the number of steps of clean_vietnamese_text
CLEANING_STEPS == 8

\* a cleaner whose steps 2, 3 and 5 to 7 are recorded only when they changed
\* the text
CleaningStepOnChange(k, s, imps) ==
    LET r == CASE k = 1 -> << Strip(s), << >> >>
               [] k = 2 -> << NormalizeNfc(s), UnicodeApplied >>
               [] k = 3 -> << RemoveWhitespaceAndNoise(s), NoiseRemoved >>
               [] k = 5 -> << FixVietnameseDiacritics(s), DiacriticsApplied >>
               [] k = 6 -> << FixDateFormats(s), DatesNormalized >>
               [] k = 7 -> << FixNumbers(s), NumbersNormalized >>
               [] OTHER -> << FinalCleanup(s), << >> >>
    IN  IF k = 4 THEN FixMistakes(s, imps, 1)
        ELSE [cleaned |-> r[1],
              improvements |-> IF r[1] = s \/ r[2] = << >> THEN imps
                               ELSE Append(imps, r[2])]

\* the k-th step of clean_vietnamese_text on the text and the list so far
CleaningStep(k, s, imps) ==
    CASE k = 1 -> [cleaned |-> Strip(s), improvements |-> imps]
      [] k = 2 -> [cleaned |-> NormalizeNfc(s),
                   improvements |-> Append(imps, UnicodeApplied)]
      [] k = 3 -> [cleaned |-> RemoveWhitespaceAndNoise(s),
                   improvements |-> Append(imps, NoiseRemoved)]
      [] k = 4 -> FixMistakes(s, imps, 1)
      [] k = 5 -> [cleaned |-> FixVietnameseDiacritics(s),
                   improvements |-> Append(imps, DiacriticsApplied)]
      [] k = 6 -> [cleaned |-> FixDateFormats(s),
                   improvements |-> Append(imps, DatesNormalized)]
      [] k = 7 -> [cleaned |-> FixNumbers(s),
                   improvements |-> Append(imps, NumbersNormalized)]
      [] OTHER -> [cleaned |-> FinalCleanup(s), improvements |-> imps]

\* the steps k .. 8 of clean_vietnamese_text
RECURSIVE CleanFrom(_, _, _)
CleanFrom(k, s, imps) ==
    IF k > CLEANING_STEPS THEN [cleaned |-> s, improvements |-> imps]
    ELSE LET r == CleaningStep(k, s, imps)
         IN  CleanFrom(k + 1, r.cleaned, r.improvements)

\* VietnameseTextCleaner.clean_vietnamese_text(): cleaned_text, improvements
clean_vietnamese_text(s) ==
    LET r == CleanFrom(1, s, << >>)
    IN  [cleaned_text |-> r.cleaned, improvements |-> r.improvements]

\* the pieces the texts handed to the cleaner are made of
Fragments ==
    { << " " >>,
      << "\n" >>,
      << "x" >>,
      << "#" >>,
      << "H", "a", " ", "N", "o", "i" >>,
      << " ", "c", "a", "p" >>,
      << "0", "1", "-", "0", "2", "-", "2", "0", "2", "3" >>,
      << "2", "-", "3", "-", "2", "2", "2", "2" >>,
      << "2", ".", "3", "." >>,
      << "2", "2", "2", " ", "3", "3", "3", " ", "4", "4", "4", " ", "5", "5",
         "5" >>,
      << "0", "0", "1", " ", "2", "3", "4", " ", "5", "6", "7", " ", "8", "9",
         "0" >>,
      << "a", "U+0300" >>,
      << "+", "8", "4", " ", "9", "1", "2", " ", "3", "4", "5", " ", "6", "7",
         "8" >>,
      << "0", "9", "1", "2", "-", "3", "4", "5", "-", "6", "7", "8" >>,
      << "a", "\n", "\n", "b" >> }

\* the texts of up to n pieces
RECURSIVE Texts(_)
Texts(n) ==
    IF n = 0 THEN { << >> }
    ELSE Texts(n - 1) \cup { t \o f : t \in Texts(n - 1), f \in Fragments }

\* the k-th step of clean_vietnamese_text is taken
TakeStep(k) ==
    /\ step = k
    /\ LET r == CleaningStep(k, cleaned, improvements)
       IN  /\ cleaned' = r.cleaned
           /\ improvements' = r.improvements
    /\ step' = k + 1
    /\ UNCHANGED <<service, env, call_vars, handler_vars, pc,
                   flag_vars,
                   other_flag_vars, request, engine, temp_files, sweep_vars,
                   response, original_text>>

\* Step 1: Basic normalization
StripText == TakeStep(1)
\* Step 2: Fix encoding issues
NormalizeUnicode == TakeStep(2)
\* Step 3: Remove excessive whitespace and noise
RemoveWhitespaceNoise == TakeStep(3)
\* Step 4: Fix common OCR mistakes
FixCommonMistakes == TakeStep(4)
\* Step 5: Fix Vietnamese diacritics that OCR might miss
FixDiacritics == TakeStep(5)
\* Step 6: Fix date formats
FixDates == TakeStep(6)
\* Step 7: Fix ID numbers and phone numbers
FixIdAndPhoneNumbers == TakeStep(7)
\* Step 8: Final cleanup
CleanupFinally == TakeStep(8)

----------------------------------------------------------------------------

\* the state of a freshly imported service module
----------------------------------------------------------------------------
(* POST /text/clean of python-ocr-service *)

\* the JSON bodies posted: without a 'text' key or with one, whose value is
\* a string or a list of strings; the characters are in `text`
CleanBodyTexts == { << >>, << "x" >>, << "H", "a", " ", "N", "o", "i" >> }

CleanBodies ==
    [keys : { { }, { "text" } }, kind : { "str", "list" },
     text : CleanBodyTexts]

\* what the cleaner returns on each of these texts
CleanedBodyTexts == [s \in CleanBodyTexts |-> clean_vietnamese_text(s)]

\* `request.get('text', '')`
GetText(body) ==
    IF "text" \in body.keys THEN [kind |-> body.kind, text |-> body.text]
    ELSE [kind |-> "str", text |-> << >>]

\* the HTTPException of line 814, made of the exception caught at line 812
CleaningFailed(cause) ==
    [endpoint |-> "/text/clean", status_code |-> 500,
     detail |-> "Text cleaning failed", cause |-> cause]

\* POST /text/clean, lines 785-814.  The HTTPException raised at line 799
\* is raised inside the `try` and is an Exception: the handler of line 812
\* catches it and raises the one of line 814 in its place.  A value that is
\* not a string has no strip(): the cleaner raises at its first step.
clean_text ==
    /\ service = OcrService
    /\ pc = "idle"
    /\ \E body \in CleanBodies :
          LET got == GetText(body)
          IN  /\ call' = Some([endpoint |-> "/text/clean", body |-> body])
              /\ IF got.text = << >>
                 THEN /\ response' = Some(CleaningFailed(
                                         HttpError("/text/clean", 400,
                                                   "No text provided")))
                      /\ effects' = << >>
                 ELSE IF got.kind # "str"
                 THEN /\ response' = Some(CleaningFailed(
                                         [raised |-> "AttributeError"]))
                      /\ effects' = << "clean_vietnamese_text" >>
                 ELSE LET r == CleanedBodyTexts[got.text]
                      IN  /\ response' =
                                Some([endpoint |-> "/text/clean",
                                      status_code |-> 200,
                                      success |-> TRUE,
                                      original_text |-> got.text,
                                      cleaned_text |-> r.cleaned_text,
                                      improvements |-> r.improvements])
                          /\ effects' = << "clean_vietnamese_text" >>
    /\ UNCHANGED <<service, env, cleaner_vars, handler_vars,
                   pc, flag_vars, other_flag_vars, request,
                   engine, temp_files, sweep_vars>>

----------------------------------------------------------------------------
(* Mock OCR service: python-ocr-service/test-mock-service.py.  It holds no *)
(* state and probes nothing: it serves from the moment it is started.      *)

Mock == "test-mock-service"

\* the mock is run where Tesseract is not installed
MockEnvs == { [libs |-> FALSE, tesseract |-> "absent"] }

\* MOCK_RESPONSES: each sample text by its first line, confidence in tenths
MOCK_RESPONSES ==
    [vietnamese |-> [text |-> << "CONG HOA XA HOI CHU NGHIA VIET NAM" >>,
                     confidence |-> 875, page_count |-> 1,
                     language |-> "vie"],
     english |-> [text |-> << "CERTIFICATE OF BUSINESS REGISTRATION" >>,
                  confidence |-> 923, page_count |-> 1,
                  language |-> "eng"]]

\* GET /health
MockHealth ==
    /\ service = Mock
    /\ response' = Some([endpoint |-> "/health",
                         status_code |-> 200,
                         status |-> "healthy",
                         tesseract_version |-> "5.3.0 (mock)"])
    /\ UNCHANGED <<service, env, call_vars, cleaner_vars, handler_vars,
                   pc, flag_vars, other_flag_vars, request,
                   engine, temp_files, sweep_vars>>

\* POST /ocr/process: a file that is not a PDF is refused, any other is
\* answered with the sample text of the language
MockProcessOcr ==
    /\ service = Mock
    /\ \E filename \in Filenames, language \in OcrLanguages :
          /\ call' = Some(ProcessOcrCall(filename, language))
          /\ IF ~IsPdf(filename)
             THEN /\ response' = Some(HttpError(
                                     "/ocr/process", 400,
                                     "Only PDF files are supported"))
                  /\ effects' = << >>
             ELSE LET mock_data ==
                          IF language = "vie" THEN MOCK_RESPONSES.vietnamese
                          ELSE MOCK_RESPONSES.english
                  IN  /\ response' =
                            Some([endpoint |-> "/ocr/process",
                                  status_code |-> 200,
                                  success |-> TRUE,
                                  file_id |-> << "mock", now, filename >>,
                                  text |-> mock_data.text,
                                  confidence |-> mock_data.confidence,
                                  page_count |-> mock_data.page_count,
                                  language |-> language,
                                  mock_service |-> TRUE])
                      /\ effects' = << "sleep", "mock data", "file.read" >>
    /\ UNCHANGED <<service, env, cleaner_vars, handler_vars,
                   pc, flag_vars, other_flag_vars, request,
                   engine, temp_files, sweep_vars>>

----------------------------------------------------------------------------
(* The command-line programs: VietnameseOCRProcessor (vietnamese_pdf_ocr.py)*)
(* and OCRCLIService (python-ocr-service/cli.py), which drives it.          *)

Processor == "vietnamese_pdf_ocr"
Cli == "cli"

\* the hosts the programs are run on: their imports succeed
ProcessorEnvs ==
    [libs : { TRUE }, tesseract : { "absent", "no_vie", "installed" }]

\* the values api_url and api_token are given: None, '' or a value
Credentials == { NoKey, "", "configured" }

\* the truth value Python gives such a value
Truthy(x) == x \notin { NoKey, "" }

\* a call that raises, a call that returns
Throw(error) == [raised |-> TRUE, error |-> error, value |-> None]
Return(v) == [raised |-> FALSE, error |-> NoKey, value |-> Some(v)]

\* VietnameseOCRProcessor.__init__ and _verify_tesseract_installation():
\* without Tesseract or without its Vietnamese data the program exits
ProcessorInit ==
    /\ service = Processor
    /\ pc = "boot"
    /\ \E api_url \in Credentials, api_token \in Credentials :
          IF env.tesseract # "installed"
          THEN /\ pc' = "exited"
               /\ UNCHANGED ocr_processor
          ELSE /\ pc' = "idle"
               /\ ocr_processor' = Some([api_url |-> api_url,
                                         api_token |-> api_token])
    /\ UNCHANGED <<service, env, call_vars, cleaner_vars, handler_vars,
                   flag_vars, paddle_ocr, paddle_available,
                   opencv_available, tesseract_available, ocr_service,
                   request, engine, temp_files, sweep_vars, response>>

\* the PDF files the programs are pointed at: the file may be missing, its
\* conversion may fail, and a page may yield no text
Pdfs ==
    { [stem |-> "a", exists |-> FALSE, converts |-> FALSE, pages |-> << >>],
      [stem |-> "a", exists |-> TRUE, converts |-> FALSE, pages |-> << >>],
      [stem |-> "a", exists |-> TRUE, converts |-> TRUE,
       pages |-> << "" >>],
      [stem |-> "a", exists |-> TRUE, converts |-> TRUE,
       pages |-> << "trang 1", "" >>] }

\* the output names a caller asks for: none (None) or a name
OutputNames == { << >>, << "out", ".txt" >> }

\* lines 251-255: the output path of process_pdf
OutputPath(pdf, output_filename, second) ==
    << "output",
       IF output_filename = << >>
       THEN << pdf.stem, "_vietnamese_ocr_", second, ".txt" >>
       ELSE output_filename >>

\* lines 269-288: the parts of full_text, one for each page with text
FullText(pages) ==
    LET with_text == { i \in 1 .. Len(pages) : pages[i] # "" }
        PartsUpTo[i \in 0 .. Len(pages)] ==
            IF i = 0 THEN << >>
            ELSE IF i \in with_text
            THEN Append(PartsUpTo[i - 1], [trang |-> i, text |-> pages[i]])
            ELSE PartsUpTo[i - 1]
    IN  PartsUpTo[Len(pages)]

\* VietnameseOCRProcessor.process_pdf(pdf_path, output_filename)
process_pdf(pdf, output_filename, second, writable) ==
    IF ~pdf.exists THEN Throw("FileNotFoundError")
    ELSE IF ~pdf.converts THEN Throw("PDF conversion failed")
    ELSE IF ~writable THEN Throw("OSError")
    ELSE Return([text |-> FullText(pdf.pages),
                 output_file |-> OutputPath(pdf, output_filename, second),
                 stats |-> [source_file |-> pdf.stem,
                            total_pages |-> Len(pdf.pages)]])

\* what the API does with the request: it answers, with content or
\* without, or the request fails
ApiFailures == { "Timeout", "ConnectionError", "HTTPError", "JSONDecodeError" }
ApiOutcomes == ApiFailures \cup { "content", "no content" }

\* VietnameseOCRProcessor.send_to_api()
send_to_api(p, outcome) ==
    IF ~Truthy(p.api_url) THEN Throw("API URL not configured")
    ELSE IF ~Truthy(p.api_token) THEN Throw("API token not configured")
    ELSE IF outcome \in ApiFailures THEN Throw(outcome)
    ELSE Return([content |-> outcome = "content"])

\* requests.post is reached in send_to_api()
Posted(p) == Truthy(p.api_url) /\ Truthy(p.api_token)

\* only one kind of failure of the API is recovered from
ApiErrorCaughtTimeoutOnly(error) == error = "Timeout"

\* line 448, `except Exception as api_error`: every failure of send_to_api
ApiErrorCaught(error) ==
    error \in ApiFailures
             \cup { "API URL not configured", "API token not configured" }

\* lines 462-470: the results when the processing failed
FailedResults(error) ==
    [success |-> FALSE, error |-> error, extracted_text |-> None,
     output_file |-> None, processing_stats |-> None,
     api_response |-> None]

\* VietnameseOCRProcessor.process_and_send(): its results and, in order,
\* the calls it made
process_and_send(p, pdf, output_filename, second, writable, outcome) ==
    LET r == process_pdf(pdf, output_filename, second, writable)
        processed == [op |-> "process_pdf", raised |-> r.raised,
                      value |-> r.value]
    IN  IF r.raised
        THEN [results |-> FailedResults(r.error), effects |-> << processed >>]
        ELSE IF ~(Truthy(p.api_url) /\ Truthy(p.api_token))
        THEN [results |->
                 [success |-> TRUE, error |-> NoKey,
                  extracted_text |-> Some(r.value[1].text),
                  output_file |-> Some(r.value[1].output_file),
                  processing_stats |-> Some(r.value[1].stats),
                  api_response |-> None],
              effects |-> << processed >>]
        ELSE LET api == send_to_api(p, outcome)
                 sent == [op |-> "send_to_api", raised |-> api.raised,
                          value |-> api.value]
                 posts == IF Posted(p)
                          THEN << [op |-> "requests.post",
                                   raised |-> api.raised,
                                   value |-> api.value] >>
                          ELSE << >>
             IN  IF api.raised /\ ~ApiErrorCaught(api.error)
                 THEN [results |-> FailedResults(api.error),
                       effects |-> << processed, sent >> \o posts]
                 ELSE [results |->
                          [success |-> TRUE, error |-> NoKey,
                           extracted_text |-> Some(r.value[1].text),
                           output_file |-> Some(r.value[1].output_file),
                           processing_stats |-> Some(r.value[1].stats),
                           api_response |-> api.value],
                       effects |-> << processed, sent >> \o posts]

\* a call of process_and_send on the processor
ProcessAndSend ==
    /\ service = Processor
    /\ pc = "idle"
    /\ \E pdf \in Pdfs, output_filename \in OutputNames,
          writable \in BOOLEAN, outcome \in ApiOutcomes :
          LET r == process_and_send(ocr_processor[1], pdf, output_filename,
                                    now, writable, outcome)
          IN  /\ call' = Some([op |-> "process_and_send", pdf |-> pdf,
                               output_filename |-> output_filename,
                               writable |-> writable,
                               outcome |-> outcome])
              /\ effects' = r.effects
              /\ result' = Some(r.results)
    /\ UNCHANGED <<service, env, cleaner_vars, handler_vars,
                   pc, flag_vars, other_flag_vars, request,
                   engine, temp_files, approach_i, lang_i, psm_i,
                   best_result, best_score, best_approach, executed,
                   response>>

\* OCRCLIService.__init__: `self.ocr_processor = VietnameseOCRProcessor()`
CliInit ==
    /\ service = Cli
    /\ pc = "boot"
    /\ IF env.tesseract # "installed"
       THEN /\ pc' = "exited"
            /\ UNCHANGED ocr_processor
       ELSE /\ pc' = "idle"
            /\ ocr_processor' = Some([api_url |-> NoKey,
                                      api_token |-> NoKey])
    /\ UNCHANGED <<service, env, call_vars, cleaner_vars, handler_vars,
                   flag_vars, paddle_ocr, paddle_available,
                   opencv_available, tesseract_available, ocr_service,
                   request, engine, temp_files, sweep_vars, response>>

\* the parameters process_pdf declares (vietnamese_pdf_ocr.py, line 237) and
\* the keywords process_single_file calls it with (cli.py, lines 61-64)
ProcessPdfParameters == { "pdf_path", "output_filename" }
ProcessPdfKeywords == { "pdf_path", "output_path" }

\* a call binds when every keyword names a parameter; Python raises
\* TypeError otherwise, before the function is entered
Binds(keywords, parameters) == keywords \subseteq parameters

\* Path.with_suffix('.txt') on the input file
WithSuffixTxt(pdf) == << pdf.stem, ".txt" >>

\* lines 75-83: the dictionary returned when anything was raised
CliFailure(pdf, error) ==
    [success |-> FALSE, input_file |-> pdf.stem, output_file |-> None,
     error |-> error, result |-> None]

\* OCRCLIService.process_single_file(file_path, output_path)
process_single_file(pdf, output_path, second, writable) ==
    IF ~pdf.exists THEN CliFailure(pdf, "FileNotFoundError")
    ELSE LET out == IF output_path = << >> THEN WithSuffixTxt(pdf)
                    ELSE output_path
         IN  IF ~Binds(ProcessPdfKeywords, ProcessPdfParameters)
             THEN CliFailure(pdf, "TypeError")
             ELSE LET r == process_pdf(pdf, out, second, writable)
                  IN  IF r.raised THEN CliFailure(pdf, r.error)
                      ELSE [success |-> TRUE, input_file |-> pdf.stem,
                            output_file |-> Some(out), error |-> NoKey,
                            result |-> r.value]

\* `python cli.py process --file ... --output ...`
ProcessSingleFile ==
    /\ service = Cli
    /\ pc = "idle"
    /\ \E pdf \in Pdfs, output_path \in OutputNames, writable \in BOOLEAN :
          /\ call' = Some([op |-> "process_single_file", pdf |-> pdf,
                           output_path |-> output_path,
                           writable |-> writable])
          /\ result' = Some(process_single_file(pdf, output_path, now,
                                                writable))
    /\ UNCHANGED <<service, env, effects, cleaner_vars, handler_vars,
                   pc, flag_vars, other_flag_vars, request,
                   engine, temp_files, approach_i, lang_i, psm_i,
                   best_result, best_score, best_approach, executed,
                   response>>

Booting ==
    /\ pc = "boot"
    /\ TESSERACT_AVAILABLE = FALSE
    /\ OPENCV_AVAILABLE = FALSE
    /\ SUPPORTED_LANGUAGES = << >>
    /\ paddle_ocr = None
    /\ paddle_available = FALSE
    /\ opencv_available = FALSE
    /\ tesseract_available = FALSE
    /\ ocr_service = [tesseract_available |-> FALSE,
                      vietnamese_available |-> FALSE]
    /\ ocr_processor = None
    /\ request = None
    /\ engine = None
    /\ temp_files = { }
    /\ approach_i = 0 /\ lang_i = 0 /\ psm_i = 0
    /\ best_result = None /\ best_score = 0 /\ best_approach = "none"
    /\ executed = << >>
    /\ result = None
    /\ response = None
    /\ now = 0
    /\ in_flight = [s \in 1 .. MaxRequests |-> None]
    /\ temp_paths = [s \in 1 .. MaxRequests |-> None]
    /\ call = None
    /\ effects = << >>

Services == { Tesseract, Paddle, OpenCv, OcrService, Mock }

\* the hosts a service is run on
EnvsOf(s) ==
    CASE s = Tesseract -> Envs
      [] s = Paddle -> PaddleEnvs
      [] s = OpenCv -> OpenCvEnvs
      [] s = Mock -> MockEnvs
      [] OTHER -> OcrServiceEnvs

\* no call of the cleaner is under way
NotCleaning ==
    /\ original_text = << >>
    /\ cleaned = << >>
    /\ improvements = << >>
    /\ step = 0

Init ==
    /\ service \in Services
    /\ env \in EnvsOf(service)
    /\ Booting
    /\ NotCleaning

TesseractNext ==
    \/ Startup
    \/ HealthCheck
    \/ ProcessOcr
    \/ EnterSweep
    \/ PrepareApproach
    \/ Attempt
    \/ Finish
    \/ Respond

PaddleNext ==
    \/ PaddleStartup
    \/ PaddleHealth
    \/ PaddleProcessOcr

OpenCvNext ==
    \/ OpenCvStartup
    \/ OpenCvHealth
    \/ OpenCvProcessImage
    \/ OpenCvOcr

OcrServiceNext ==
    \/ OcrServiceStartup
    \/ OcrServiceHealth
    \/ Tick
    \/ OcrServiceReceive
    \/ OcrServiceProcess

MockNext ==
    \/ MockHealth
    \/ MockProcessOcr

Next ==
    \/ TesseractNext
    \/ PaddleNext
    \/ OpenCvNext
    \/ OcrServiceNext
    \/ MockNext

Spec == Init /\ [][Next]_vars

InitGrid ==
    /\ service = Tesseract
    /\ env = TypicalEnv
    /\ Booting
    /\ NotCleaning

SpecGrid == InitGrid /\ [][TesseractNext]_vars

\* clean_vietnamese_text is called on a text: the locals of lines 192-196
InitClean ==
    /\ service = OcrService
    /\ env = [libs |-> TRUE, tesseract |-> "installed"]
    /\ Booting
    /\ original_text \in Texts(MaxFragments)
    /\ cleaned = original_text
    /\ improvements = << >>
    /\ step = 1

CleanNext ==
    \/ StripText
    \/ NormalizeUnicode
    \/ RemoveWhitespaceNoise
    \/ FixCommonMistakes
    \/ FixDiacritics
    \/ FixDates
    \/ FixIdAndPhoneNumbers
    \/ CleanupFinally

SpecClean == InitClean /\ [][CleanNext]_vars

\* python-ocr-service asked to clean texts
InitText ==
    /\ service = OcrService
    /\ env \in OcrServiceEnvs
    /\ Booting
    /\ NotCleaning

TextNext ==
    \/ OcrServiceStartup
    \/ OcrServiceHealth
    \/ clean_text

SpecText == InitText /\ [][TextNext]_vars

\* the command-line programs
InitTools ==
    /\ service \in { Processor, Cli }
    /\ env \in ProcessorEnvs
    /\ Booting
    /\ NotCleaning

ToolsNext ==
    \/ ProcessorInit
    \/ ProcessAndSend
    \/ CliInit
    \/ ProcessSingleFile

SpecTools == InitTools /\ [][ToolsNext]_vars

----------------------------------------------------------------------------
(* History of the sweep, read off the invocations made so far. *)

SweepRan == engine # None

InSweep == pc \in { "approach", "psm", "finish" }

RunAt(i) == SubprocessRun(engine[1], executed[i])
TextAt(i) == Strip(RunAt(i).stdout)

\* the text length the engine yields in a cell (-1 when it fails there)
CellLen(cell) ==
    LET run == SubprocessRun(engine[1], cell)
    IN  IF run.kind = "exit" /\ run.returncode = 0
        THEN Len(Strip(run.stdout)) ELSE -1

\* the text length of each invocation made so far (-1 for a failed one)
ExecutedLens == [i \in 1 .. Len(executed) |-> CellLen(executed[i])]

\* the largest text length in lens, 0 without a successful attempt
MaxLenOf(lens) ==
    LET ns == { lens[i] : i \in DOMAIN lens } \cup { 0 }
    IN  CHOOSE n \in ns : \A m \in ns : m <= n

\* the earliest attempt of lens with text length n
EarliestWithLen(lens, n) ==
    CHOOSE i \in DOMAIN lens :
        lens[i] = n /\ \A j \in 1 .. (i - 1) : lens[j] # n

\* the largest text length over the whole grid of the request, 0 without any
GridMax ==
    LET lens == { CellLen(c) : c \in Cells(request[1].language) } \cup { 0 }
    IN  CHOOSE n \in lens : \A m \in lens : m <= n

----------------------------------------------------------------------------
(* C1: once an attempt of the sweep has returned more than 100 characters, *)
(* no further engine invocation is made for the request.                   *)
C1_SearchStopsAfterGoodEnough ==
    [][ ( /\ InSweep
          /\ SweepRan
          /\ \E i \in 1 .. Len(executed) : ExecutedLens[i] > 100 )
        => executed' = executed ]_vars

(* C2: whatever the engine does, a request makes at most 6 x L x 4 engine  *)
(* invocations (L = 1 for 'eng', 2 otherwise, so never more than 48), and  *)
(* every step of the sweep moves it forward, so that it returns.           *)
SweepBound(language) == 6 * (IF language = "eng" THEN 1 ELSE 2) * 4

SweepRank ==
    CASE pc = "call" -> 0
      [] pc = "approach" -> 10 * approach_i
      [] pc = "psm" -> 10 * approach_i + 1 + 4 * (lang_i - 1) + psm_i
      [] pc = "finish" -> 70
      [] pc = "returned" -> 71
      [] OTHER -> 72

SweepCountOk ==
    request # None =>
        /\ Len(executed) <= SweepBound(request[1].language)
        /\ Len(executed) <= 48

SweepAdvances ==
    pc \in { "call", "approach", "psm", "finish" } => SweepRank' > SweepRank

C2_InvocationsBounded == [] SweepCountOk /\ [][SweepAdvances]_vars

C2_Witness ==
    /\ pc = "returned"
    /\ request[1].language # "eng"
    /\ Len(executed) = 48
    /\ \E i \in 1 .. 48 : RunAt(i).kind = "timeout"

(* C3 as claimed: for fixed per-cell engine outputs (and no variant whose   *)
(* preprocessing fails) the attempt the sweep returns has the maximum text *)
(* length of the whole (variant x language x mode) grid.                   *)
C3_WinnerIsGridMaximum ==
    (pc = "returned" /\ SweepRan /\ engine[1].prep_fails = { })
        => best_score = GridMax

(* C3 as amended: the sweep returns the longest text among the cells it    *)
(* invoked (the empty text when that length is below 2); this is the       *)
(* maximum of the whole grid, with every cell invoked once, whenever no    *)
(* cell yields more than 100 characters and no variant's preprocessing     *)
(* fails.  A cell skipped after an early exit cannot win.                  *)
C3_WinnerIsMaximumOfInvoked ==
    (pc = "returned" /\ SweepRan) =>
        /\ best_score = MaxLenOf(ExecutedLens)
        /\ Len(result[1].text)
              = IF best_score >= MIN_VIABLE_LENGTH THEN best_score ELSE 0
        /\ (engine[1].prep_fails = { } /\ GridMax <= 100) =>
              /\ best_score = GridMax
              /\ { executed[i] : i \in 1 .. Len(executed) }
                    = Cells(request[1].language)
              /\ Len(executed) = Cardinality(Cells(request[1].language))

C3_Witness ==
    /\ pc = "returned"
    /\ SweepRan
    /\ engine[1].prep_fails = { }
    /\ GridMax = 100
    /\ best_score = 100
    /\ request[1].language = "vie"
    /\ CellLen(<< "original", "vie", 3 >>) = 2
    /\ CellLen(<< "user_preprocessing", "eng", 8 >>) = 100

(* C4 as claimed: at every point of the sweep best_score is the largest    *)
(* text length among the successful attempts made so far and, once there   *)
(* is a successful attempt, best_result holds the text, method label and   *)
(* variant of the earliest attempt that reached that length.               *)
C4_BestHoldsEarliestLongest ==
    (SweepRan /\ \E i \in 1 .. Len(executed) : ExecutedLens[i] >= 0) =>
        LET lens == ExecutedLens
            i == EarliestWithLen(lens, MaxLenOf(lens))
        IN  /\ best_score = MaxLenOf(lens)
            /\ best_result # None
            /\ best_result[1].text = TextAt(i)
            /\ best_result[1].preprocessing = executed[i][1]

(* C4 as amended: at every point of the sweep best_score is the largest    *)
(* text length among the successful attempts made so far (0 without any);  *)
(* while it is 0 best_result is None (an attempt with empty text never     *)
(* becomes the best), and once it is positive best_result holds the text,  *)
(* method label and variant of the earliest attempt that reached it; a     *)
(* final best_score of at least 2 returns exactly that attempt's text.     *)
C4_BestIsEarliestLongest ==
    SweepRan =>
        LET lens == ExecutedLens
        IN  /\ best_score = MaxLenOf(lens)
            /\ best_score = 0 => best_result = None
            /\ best_score > 0 =>
                  LET i == EarliestWithLen(lens, best_score)
                  IN  /\ best_result # None
                      /\ best_result[1].text = TextAt(i)
                      /\ best_result[1].method
                            = << "tesseract", executed[i][1],
                                 executed[i][2], executed[i][3] >>
                      /\ best_result[1].preprocessing = executed[i][1]
                      /\ best_approach = executed[i][1]
                      /\ (pc = "returned" /\ best_score >= 2) =>
                            result[1].text = TextAt(i)

C4_Witness ==
    /\ pc = "returned"
    /\ SweepRan
    /\ best_score >= 2
    /\ ExecutedLens[1] = 0
    /\ \E i, j \in 1 .. Len(executed) :
          /\ i < j
          /\ ExecutedLens[i] = best_score
          /\ ExecutedLens[j] = best_score
          /\ TextAt(i) # TextAt(j)
          /\ result[1].text = TextAt(i)

(* C5: when every attempt of the sweep yields fewer than 2 characters the  *)
(* result is success=true with empty text and confidence 0.                *)
C5_NoUsableTextIsEmptySuccess ==
    ( /\ pc = "returned"
      /\ SweepRan
      /\ \A i \in 1 .. Len(executed) : ExecutedLens[i] < 2 )
    => /\ result[1].success = TRUE
       /\ result[1].text = << >>
       /\ result[1].confidence = 0
       /\ result[1].error = NoKey

C5_Witness ==
    /\ pc = "returned"
    /\ SweepRan
    /\ \A i \in 1 .. Len(executed) : ExecutedLens[i] < 2
    /\ \E i \in 1 .. Len(executed) : ExecutedLens[i] = 1
    /\ best_score = 1
    /\ result[1].text = << >>

(* C6 as claimed: with a readable image and an engine whose every          *)
(* invocation errors (the invocations of the startup probe, and those of   *)
(* the request when the sweep is entered), the sweep returns success=true  *)
(* with empty text and confidence 0.                                       *)
EngineAlwaysErrors ==
    IF SweepRan
    THEN \A c \in Cells(request[1].language) : CellLen(c) = -1
    ELSE env.tesseract \in { "absent", "broken" }

FailedAttemptStep ==
    /\ pc = "psm"
    /\ Len(executed') = Len(executed) + 1
    /\ LET run == SubprocessRun(engine[1], executed'[Len(executed')])
       IN  ~(run.kind = "exit" /\ run.returncode = 0)

ContinuesInOrder ==
    IF psm_i < 4
    THEN pc' = "psm" /\ approach_i' = approach_i /\ lang_i' = lang_i
         /\ psm_i' = psm_i + 1
    ELSE IF best_score <= 100 /\ lang_i = 1 /\ request[1].language # "eng"
    THEN pc' = "psm" /\ approach_i' = approach_i /\ lang_i' = 2 /\ psm_i' = 1
    ELSE IF approach_i < 6
    THEN pc' = "approach" /\ approach_i' = approach_i + 1
    ELSE pc' = "finish"

FailureRecoveredLocally ==
    FailedAttemptStep =>
        /\ best_result' = best_result
        /\ best_score' = best_score
        /\ result' = None
        /\ ContinuesInOrder

C7_AttemptFailureRecoveredLocally ==
    /\ [][FailureRecoveredLocally]_vars
    /\ []((pc = "returned" /\ SweepRan) => result[1].success)

C7_Witness ==
    /\ pc = "psm"
    /\ SweepRan
    /\ best_score > 0
    /\ Len(executed) > 1
    /\ RunAt(Len(executed)).kind = "timeout"
    /\ executed[Len(executed)][2] = "eng"
    /\ psm_i = 4

(* C8 as claimed: with the engine binary absent at startup no OCR request  *)
(* fails on that account: the sweep does not return success=false for a    *)
(* readable image and /process-ocr does not answer with the error of the   *)
(* missing engine.                                                         *)
EngineAbsent ==
    service = Tesseract /\ pc # "boot" /\ env.tesseract = "absent"

EngineNotInstalled ==
    /\ pc # "boot"
    /\ CASE service = Tesseract -> env.tesseract = "absent"
         [] service = Paddle -> env.paddleocr = "absent"
         [] service = OpenCv -> env.tesseract = "absent"
         [] OTHER -> ~env.libs \/ env.tesseract = "absent"

OcrEndpoints == { "/process-ocr", "/paddle-ocr", "/ocr", "/ocr/process" }

\* the last response answers an OCR request the service accepted and whose
\* upload it stored
OcrAnswered ==
    /\ response # None
    /\ response[1].endpoint \in OcrEndpoints
    /\ response[1].status_code # 400
    /\ ~(response[1].status_code = 500 /\ response[1].detail = UploadError)
    /\ ~(response[1].endpoint = "/ocr/process"
         /\ response[1].status_code = 200
         /\ response[1].processing_mode = "error_fallback")

----------------------------------------------------------------------------
(* C11: temporary files of a request *)

\* C11: in every upload handler of every service, once the request has
\* finished by any exit path (a normal return, a failed OCR, an exception
\* after the temporary file was created), no file or directory created for
\* the request remains: whenever no request is in flight nothing is left
C11_NoTempFileSurvivesRequest ==
    pc = "idle" => temp_files = { }

----------------------------------------------------------------------------
(* C12: temporary paths of concurrent requests *)

\* C12: requests are independent under every interleaving: two requests
\* processed concurrently never use the same temporary file path, also when
\* they upload the same filename within the same second
C12_ConcurrentRequestsUseDistinctPaths ==
    \A a, b \in 1 .. MaxRequests :
        ( /\ a # b
          /\ temp_paths[a] # None
          /\ temp_paths[b] # None
          /\ b \in temp_paths[a][1].peers ) =>
            temp_paths[a][1].path # temp_paths[b][1].path

----------------------------------------------------------------------------
(* C13: the capability flags *)

\* C13: the capability-probe result (TESSERACT_AVAILABLE, OPENCV_AVAILABLE,
\* SUPPORTED_LANGUAGES) is written only by the startup probe: every step
\* taken after startup, whatever the requests and however the engine fails,
\* leaves the three flags unchanged
C13_FlagsWrittenOnlyByProbe ==
    [][pc # "boot" => UNCHANGED flag_vars]_vars

\* the sweep of a request has returned, all its engine invocations timed
\* out, and the flags still say what the probe found
C13_Witness ==
    /\ service = Tesseract
    /\ pc = "returned"
    /\ result[1].success
    /\ Len(executed) > 0
    /\ \A i \in 1 .. Len(executed) : RunAt(i).kind = "timeout"
    /\ TESSERACT_AVAILABLE
    /\ SUPPORTED_LANGUAGES # << >>

----------------------------------------------------------------------------
(* C14: the order of the languages *)

\* the place of an invocation in the order the claim describes: by variant,
\* then the requested language before the fallback, then by mode
CellRank(cell, language) ==
    LET a == CHOOSE k \in 1 .. Len(approaches) : approaches[k] = cell[1]
        l == IF cell[2] = language THEN 0 ELSE 1
        p == CHOOSE k \in 1 .. Len(PsmModes) : PsmModes[k] = cell[3]
    IN  8 * a + 4 * l + p

\* the i-th invocation is the first one of the fallback language in its
\* variant
FirstFallbackAt(invoked, i, language) ==
    /\ invoked[i][2] # language
    /\ (i = 1 \/ invoked[i - 1][2] = language
              \/ invoked[i - 1][1] # invoked[i][1])

\* the i-th invocation is in its place: it is of the requested or of the
\* fallback language, it comes later in the order than the one before it,
\* and a first fallback attempt of a variant comes right after the four
\* modes of the requested language in that variant
InvokedInOrder(invoked, i, language) ==
    /\ invoked[i][2] \in { language, FallbackLanguage }
    /\ i > 1 => CellRank(invoked[i - 1], language)
                    < CellRank(invoked[i], language)
    /\ FirstFallbackAt(invoked, i, language) =>
          /\ invoked[i][2] = FallbackLanguage
          /\ i > Len(PsmModes)
          /\ \A k \in 1 .. Len(PsmModes) :
                invoked[i - Len(PsmModes) + k - 1] =
                    << invoked[i][1], language, PsmModes[k] >>

\* C14: within each preprocessing variant the sweep attempts the requested
\* language (all its modes) before the fallback language 'eng', the fallback
\* is skipped when it equals the requested language, and no (variant,
\* language, mode) combination is invoked more than once in a request:
\* every invocation the sweep makes is in its place
C14_RequestedLanguageBeforeFallback ==
    [][Len(executed') > Len(executed) =>
          InvokedInOrder(executed', Len(executed'), request'[1].language)]_vars

\* a sweep for 'vie' has returned that tried the fallback in its first
\* variant and skipped it after a later attempt printed more than 100
\* characters
C14_Witness ==
    /\ pc = "returned"
    /\ request[1].language = "vie"
    /\ Len(executed) > Len(PsmModes)
    /\ executed[1 + Len(PsmModes)] = << approaches[1], "eng", PsmModes[1] >>
    /\ \E i \in 1 .. Len(executed) : CellLen(executed[i]) > EARLY_EXIT_LENGTH
    /\ executed[Len(executed)][2] = "vie"

----------------------------------------------------------------------------
(* C15: the confidence heuristic *)

\* C15: the confidence returned by process_with_tesseract_multi_approach is
\* a function of the length n of the returned text only: it is
\* min(95, 50 + floor(n/2)) when the returned text is non-empty and 0 when
\* it is empty, and so it always lies within 0..100
C15_ConfidenceFromLength ==
    (service = Tesseract /\ pc = "returned") =>
        LET n == Len(result[1].text)
            h == 50 + (n \div 2)
        IN  /\ result[1].confidence =
                  IF n = 0 THEN 0 ELSE IF h < 95 THEN h ELSE 95
            /\ result[1].confidence \in 0 .. 100

\* a returned text of more than 100 characters, whose confidence is capped
C15_Witness ==
    /\ service = Tesseract
    /\ pc = "returned"
    /\ Len(result[1].text) > 100
    /\ 50 + (Len(result[1].text) \div 2) > 95
    /\ result[1].confidence = 95

----------------------------------------------------------------------------
(* C16 - C20: the text cleaner *)

\* clean_vietnamese_text has returned
Cleaned == step > CLEANING_STEPS

\* the text D/M/YYYY of the date-shaped token that starts at s[i]
RewrittenDate(s, i) ==
    LET d == DateAt(s, i)[1]
        m == DateAt(s, i)[2]
    IN  SubSeq(s, i, i + d - 1) \o << "/" >>
        \o SubSeq(s, i + d + 1, i + d + m) \o << "/" >>
        \o SubSeq(s, i + d + m + 2, i + d + m + 5)

\* C16: every date-shaped token D[./-]M[./-]YYYY of the input of
\* clean_vietnamese_text (day and month of 1-2 digits, 4-digit year, any
\* digits) appears in the cleaned output rewritten as D/M/YYYY with its
\* digits unchanged; an input containing "01-02-2023" gives an output
\* containing "01/02/2023"
C16_DateTokensRewritten ==
    Cleaned =>
        \A i \in 1 .. Len(original_text) :
            DateAt(original_text, i) # << >> =>
                Contains(cleaned, RewrittenDate(original_text, i))

\* four groups of three digits, a space between them, start at s[i]
SpacedIdAt(s, i) ==
    /\ \A g \in 0 .. 3 : DigitsAt(s, i + 4 * g, 3)
    /\ \A g \in 1 .. 3 : InClass(s, i + 4 * g - 1, { " " })

\* C17: for every input of clean_vietnamese_text containing a 12-digit ID
\* written as four space-separated groups of three digits (any digits, as
\* "001 234 567 890"), the cleaned output contains the same twelve digits
\* as one contiguous run
C17_SpacedIdsCollapsed ==
    Cleaned =>
        \A i \in 1 .. Len(original_text) :
            SpacedIdAt(original_text, i) =>
                Contains(cleaned,
                         SubSeq(original_text, i, i + 2)
                         \o SubSeq(original_text, i + 4, i + 6)
                         \o SubSeq(original_text, i + 8, i + 10)
                         \o SubSeq(original_text, i + 12, i + 14))

\* "Ha Noi", and its accented form: H, a with grave, blank, N, o with
\* circumflex and dot below, i
HaNoi == << "H", "a", " ", "N", "o", "i" >>
HaNoiAccented == << "H", "U+00E0", " ", "N", "U+1ED9", "i" >>

\* C18: for every input of clean_vietnamese_text that contains the phrase
\* "Ha Noi" (in any surrounding context, also followed by another dictionary
\* phrase such as "Noi cap" overlapping it), the cleaned output contains the
\* accented form of the phrase
C18_HaNoiAccented ==
    (Cleaned /\ Contains(original_text, HaNoi)) =>
        Contains(cleaned, HaNoiAccented)

\* the text contains a key of the substitution dictionary
HasDictionaryKey(s) ==
    \E k \in 1 .. Len(common_mistakes) :
        Contains(LowerText(s), LowerText(common_mistakes[k][1]))

\* C19: clean_vietnamese_text is idempotent on outputs that contain none of
\* the dictionary phrases: when clean(x) contains no key of the dictionary,
\* clean(clean(x)) = clean(x), also when the digit-group collapsing of the
\* first pass produced a new date-shaped token
C19_IdempotentWithoutKeys ==
    (Cleaned /\ ~HasDictionaryKey(cleaned)) =>
        clean_vietnamese_text(cleaned).cleaned_text = cleaned

(* C20 as claimed: clean_vietnamese_text applied to the empty string       *)
(* raises no error and returns the empty string as cleaned_text together   *)
(* with an empty improvements list.                                        *)
C20_EmptyTextEmptySteps ==
    (Cleaned /\ original_text = << >>) =>
        /\ cleaned = << >>
        /\ improvements = << >>

(* C20 as amended: clean_vietnamese_text applied to the empty string       *)
(* raises no error and returns the empty string as cleaned_text together   *)
(* with the five entries that every call records, in this order: Unicode   *)
(* normalization, noise removal, diacritics correction, date formats,      *)
(* number formats.                                                         *)
C20_EmptyTextFiveSteps ==
    (Cleaned /\ original_text = << >>) =>
        /\ cleaned = << >>
        /\ improvements = << << "Unicode normalization applied" >>,
                << "Removed noise characters and normalized spacing" >>,
                << "Vietnamese diacritics correction applied" >>,
                << "Date formats normalized" >>,
                << "Number formats normalized" >> >>

C20_Witness ==
    /\ Cleaned
    /\ original_text = << >>
    /\ Len(improvements) = 5

----------------------------------------------------------------------------
(* C21, C22, C30: the text cleaner, continued *)

\* the phone number that starts at s[i], written as one run: the prefix
\* followed by its digits
CollapsedPhone(s, i) ==
    LET at == PhoneAt(s, i)
    IN  SubSeq(s, i, i + PrefixLen(s, i) - 1)
        \o SubSeq(s, at[1], at[1] + at[2] - 1)
        \o SubSeq(s, at[3], at[3] + 2)
        \o SubSeq(s, at[4], at[4] + at[5] - 1)

\* C21: a Vietnamese phone number written with internal spaces or hyphens
\* (a prefix +84 or 0 followed by groups of 2-3, 3 and 3-4 digits) in the
\* input of clean_vietnamese_text is collapsed into one contiguous run, the
\* prefix followed by its digits, in the cleaned output
C21_PhoneNumbersCollapsed ==
    Cleaned =>
        \A i \in 1 .. Len(original_text) :
            PhoneAt(original_text, i) # << >> =>
                Contains(cleaned, CollapsedPhone(original_text, i))

\* a run of line breaks stands between two word characters of the text
BlankLinesBetweenWords(s) ==
    \E i, j \in 1 .. Len(s) :
        /\ i < j
        /\ \A k \in i .. j : s[k] = "\n"
        /\ i > 1 /\ InClass(s, i - 1, WordChars)
        /\ InClass(s, j + 1, WordChars)

\* C22: clean_vietnamese_text keeps line structure: a run of blank lines in
\* the input is collapsed to a single line break in the cleaned output, so
\* the lines of a multi-line input remain separated by a line break and
\* statistics.line_count exceeds 1
C22_LineStructureKept ==
    (Cleaned /\ BlankLinesBetweenWords(original_text)) =>
        /\ Contains(cleaned, << "\n" >>)
        /\ LineCount(cleaned) > 1

\* C30: for every input string, the cleaned_text returned by
\* clean_vietnamese_text has no leading or trailing whitespace and never
\* contains two adjacent whitespace characters
C30_NoStrayWhitespace ==
    Cleaned =>
        /\ cleaned # << >> =>
              /\ cleaned[1] \notin Whitespace
              /\ cleaned[Len(cleaned)] \notin Whitespace
        /\ \A i \in 1 .. (Len(cleaned) - 1) :
              ~(cleaned[i] \in Whitespace /\ cleaned[i + 1] \in Whitespace)

\* a text that began with whitespace and held two adjacent whitespace
\* characters between words has been cleaned
C30_Witness ==
    /\ Cleaned
    /\ cleaned # << >>
    /\ original_text[1] \in Whitespace
    /\ BlankLinesBetweenWords(original_text)
    /\ Contains(cleaned, << " " >>)

----------------------------------------------------------------------------
(* C23: uploads that are not PDF files *)

\* the filename ends in '.pdf', whatever the case of its letters
EndsInPdf(filename) == filename[2] \in { ".pdf", ".PDF" }

\* the answer to a file that is not a PDF
OnlyPdfSupported ==
    Some(HttpError("/ocr/process", 400, "Only PDF files are supported"))

\* what a call of /ocr/process of python-ocr-service may do: answer 400 with
\* the requests in flight and the temporary files as they were, or put a
\* file ending in '.pdf' in flight
RefusedOrPdfInFlight ==
    \/ /\ response' = OnlyPdfSupported
       /\ UNCHANGED <<in_flight, temp_paths, temp_files>>
    \/ /\ InFlight' \ InFlight # { }
       /\ \A slot \in InFlight' \ InFlight :
             EndsInPdf(in_flight'[slot][1].filename)

\* C23: in python-ocr-service and in the mock service, a call of
\* /ocr/process whose filename does not end in '.pdf' (case-insensitively)
\* is answered with HTTP 400 before anything is done for it.  In the
\* service, a step that neither refuses a file with everything left as it
\* was nor puts a '.pdf' file in flight is no call of /ocr/process; in the
\* mock, a call with another filename is answered 400 and no mock
\* processing is done.
C23_NonPdfRejectedFirst ==
    [][/\ ~RefusedOrPdfInFlight => ~OcrServiceReceive
       /\ (MockProcessOcr /\ ~EndsInPdf(call'[1].filename)) =>
             /\ response' = OnlyPdfSupported
             /\ effects' = << >>
             /\ UNCHANGED temp_files]_vars

\* python-ocr-service has refused a file that is not a PDF while another
\* upload was in flight
C23_Witness ==
    /\ service = OcrService
    /\ response = OnlyPdfSupported
    /\ InFlight # { }
    /\ \A slot \in Slots : temp_paths[slot] = None

----------------------------------------------------------------------------
(* C24: POST /text/clean without text *)

\* the body has no 'text' field, or an empty one
NoTextProvided(body) == "text" \notin body.keys \/ body.text = << >>

\* C24: a call of /text/clean whose 'text' field is missing or empty is
\* answered with HTTP 400 "No text provided" and the cleaner is not run; the
\* answer is a 500 only when the cleaner was run and failed.
C24_NoTextIsBadRequest ==
    [][clean_text =>
          /\ NoTextProvided(call'[1].body) =>
                /\ response' = Some(HttpError("/text/clean", 400,
                                              "No text provided"))
                /\ effects' = << >>
          /\ response'[1].status_code = 500 =>
                effects' = << "clean_vietnamese_text" >>]_vars

----------------------------------------------------------------------------
(* C25: the language python-ocr-service recognises in *)

\* the last response is that of an upload Tesseract has processed
ProcessedByTesseract ==
    /\ service = OcrService
    /\ response # None
    /\ response[1].endpoint = "/ocr/process"
    /\ response[1].status_code = 200
    /\ response[1].success
    /\ response[1].processing_mode = "tesseract_enhanced"

\* C25: with Tesseract available, the language an upload is recognised in
\* is the language the endpoint handed on (the requested one when it is
\* installed, 'eng' when it is not): a request for an installed language,
\* 'vie' or another, is processed in that language.
C25_InstalledLanguageUsed ==
    ProcessedByTesseract =>
        /\ response[1].requested_language \in AvailableLanguages(env)
        /\ response[1].language = response[1].requested_language

----------------------------------------------------------------------------
(* C26: process_and_send when the API fails *)

\* the positions in the trace of the call at which `op` was called
CallsOf(op) == { i \in DOMAIN effects : effects[i].op = op }

\* C26: in VietnameseOCRProcessor.process_and_send a failure of the API
\* call never changes the outcome of a successful process_pdf: the results
\* have success = true with the extracted text, the output file and the
\* statistics process_pdf returned, and api_response = None when the API
\* call failed.  The API is called at most once, only after process_pdf
\* has succeeded and only when api_url and api_token are both configured.
C26_ApiFailureKeepsResults ==
    (service = Processor /\ result # None) =>
        LET made == process_pdf(call[1].pdf, call[1].output_filename, now,
                                call[1].writable)
            api == CallsOf("send_to_api") \cup CallsOf("requests.post")
        IN  /\ effects[1].op = "process_pdf"
            /\ effects[1].raised = made.raised
            /\ Cardinality(CallsOf("send_to_api")) <= 1
            /\ Cardinality(CallsOf("requests.post")) <= 1
            /\ \A i \in api :
                  /\ i > 1
                  /\ ~made.raised
                  /\ Truthy(ocr_processor[1].api_url)
                  /\ Truthy(ocr_processor[1].api_token)
            /\ ~made.raised =>
                  /\ result[1].success
                  /\ result[1].extracted_text = Some(made.value[1].text)
                  /\ result[1].output_file = Some(made.value[1].output_file)
                  /\ result[1].processing_stats = Some(made.value[1].stats)
                  /\ \A i \in api :
                        effects[i].raised => result[1].api_response = None

\* the processor has extracted text from a PDF and the API call it made
\* has failed
C26_Witness ==
    /\ service = Processor
    /\ result # None
    /\ result[1].success
    /\ result[1].extracted_text # Some(<< >>)
    /\ result[1].api_response = None
    /\ \E i \in CallsOf("requests.post") :
          /\ effects[i].raised
          /\ call[1].outcome = "ConnectionError"

----------------------------------------------------------------------------
(* C27: process_single_file of the command-line interface *)

\* C27: OCRCLIService.process_single_file, given an existing PDF whose
\* conversion and OCR succeed, returns success = true with output_file
\* equal to the requested output path (the input path with the suffix .txt
\* when none was requested); it returns success = false only when the file
\* is missing or the PDF processing fails.
C27_ExistingPdfProcessed ==
    (service = Cli /\ result # None) =>
        LET pdf == call[1].pdf
            processable == pdf.exists /\ pdf.converts /\ call[1].writable
        IN  /\ processable =>
                  /\ result[1].success
                  /\ result[1].output_file =
                        Some(IF call[1].output_path = << >>
                             THEN << pdf.stem, ".txt" >>
                             ELSE call[1].output_path)
            /\ ~result[1].success => ~processable

----------------------------------------------------------------------------
(* C28: POST /ocr of the OpenCV service when preprocessing fails *)

\* the last response answers the call of /ocr that is recorded
OcrCallAnswered ==
    /\ service = OpenCv
    /\ call # None
    /\ response # None
    /\ response[1].endpoint = "/ocr"

\* the call asked for preprocessing and enhance_image_opencv failed
PreprocessingFailed ==
    \E i \in DOMAIN effects :
        effects[i].op = "enhance_image_opencv" /\ ~effects[i].success

\* C28: in the OpenCV service's /ocr endpoint a failure of the
\* preprocessing does not fail the request: OCR runs on the original upload
\* and the response's success and text are those of the OCR step alone.
C28_PreprocessingFailureIgnored ==
    (OcrCallAnswered /\ PreprocessingFailed) =>
        LET ocr == effects[Len(effects)]
            expected == run_tesseract_ocr(tesseract_available,
                                          call[1].outcome,
                                          call[1].language, 6)
        IN  /\ response[1].status_code = 200
            /\ ocr.op = "run_tesseract_ocr"
            /\ ocr.image = "upload"
            /\ response[1].success = expected.success
            /\ response[1].text = expected.text

\* preprocessing has failed on an upload and the OCR step has read text
\* from it
C28_Witness ==
    /\ OcrCallAnswered
    /\ PreprocessingFailed
    /\ call[1].preprocess
    /\ response[1].success
    /\ response[1].processing_method = "tesseract-real"
    /\ response[1].text # << >>

----------------------------------------------------------------------------
(* C29: the sweep after an attempt has returned more than 100 characters *)

\* some invocation before the i-th returned more than 100 characters
LongBefore(invoked, i) ==
    \E j \in 1 .. (i - 1) : CellLen(invoked[j]) > EARLY_EXIT_LENGTH

\* some invocation of an earlier variant than that of the i-th returned
\* more than 100 characters
LongInEarlierVariant(invoked, i) ==
    \E j \in 1 .. (i - 1) :
        /\ invoked[j][1] # invoked[i][1]
        /\ CellLen(invoked[j]) > EARLY_EXIT_LENGTH

\* the invocations made on the variant of the i-th, up to the i-th
InVariantUpTo(invoked, i) ==
    { k \in 1 .. i : invoked[k][1] = invoked[i][1] }

\* C29: in process_with_tesseract_multi_approach, once some attempt has
\* returned more than 100 characters, no attempt in the fallback language
\* is made for the rest of the request, and each variant that remains makes
\* at most 4 engine invocations.  Stated of each invocation as it is made:
\* an invocation in the fallback language has no such attempt before it,
\* and a fifth invocation of a variant has none in an earlier variant.
C29_NoFallbackAfterLongText ==
    [][Len(executed') > Len(executed) =>
          LET i == Len(executed')
          IN  /\ executed'[i][2] # request'[1].language =>
                    ~LongBefore(executed', i)
              /\ Cardinality(InVariantUpTo(executed', i)) > Len(PsmModes) =>
                    ~LongInEarlierVariant(executed', i)]_vars

\* a Vietnamese request whose first variant returned more than 100
\* characters has gone through four invocations of a later variant
C29_Witness ==
    /\ pc = "returned"
    /\ request[1].language = "vie"
    /\ Len(executed) > Len(PsmModes)
    /\ LongInEarlierVariant(executed, Len(executed))
    /\ Cardinality(InVariantUpTo(executed, Len(executed))) = Len(PsmModes)
    /\ CellLen(executed[1]) <= EARLY_EXIT_LENGTH

=============================================================================
